---- MODULE Spec2Model ----
(***************************************************************************)
(* EmbeddedSpaceWire: character codec, CRC engine, frame codec, router,     *)
(* link layer and packet integration layer, modelled as state machines.    *)
(*                                                                         *)
(* The specifications share the variables:                                 *)
(*   SpecCrc       sw_crc16 on sample inputs                               *)
(*   SpecChar      sw_encode_char / sw_decode_char                         *)
(*   SpecFrame     sw_frame_encode / corruption / sw_frame_decode          *)
(*   SpecWire      sw_frame_decode of received buffers of any length       *)
(*   SpecRouter    sw_router_init / add_route / open_channel / route_frame *)
(*   SpecRouterOwn the router operations without direct link writes        *)
(*   SpecLink      sw_link_init / sw_link_set_state / sw_link_get_state    *)
(*   SpecPacket    sw_packet_init / encode / decode / statistics           *)
(*   SpecPacketApi every function of the packet layer                      *)
(*   SpecThreads   two execution contexts in sw_packet_encode / decode     *)
(* The part of the state a specification does not use stays at its idle    *)
(* value.                                                                  *)
(***************************************************************************)
EXTENDS Integers, Sequences, FiniteSets, TLC

VARIABLES
  pc,        \* position of the driving caller
  src,       \* FRAME: the caller's payload array (frame.payload points into it)
  frame,     \* FRAME: the sw_frame_t handed to sw_frame_encode
  buf,       \* FRAME/PACKET: the byte buffer (its capacity is Len(buf))
  wire_len,  \* FRAME/PACKET: length of the encoded frame now in buf
  decoded,   \* FRAME: the sw_frame_t handed to sw_frame_decode
  router,    \* ROUTER: the sw_router_t
  out_port,  \* ROUTER: the caller's uint8_t output_port
  mapped,    \* ROUTER: history, per address the port of the last accepted AddRoute since Init
  pf,        \* PACKET: the caller's sw_packet_frame_t context
  stats,     \* PACKET: g_sw_stats
  tally,     \* PACKET: history, what the calls since the last reset returned;
             \* ROUTER: history, per port the successful RouteFrame calls since Init;
             \* LINK: history, the state last stored by sw_link_init / sw_link_set_state
  link,      \* LINK: the caller's sw_link_layer_t object
  thread,    \* THREADS: per execution context, where it is in its packet call and its locals
  ret,       \* return value of the last call
  call       \* the last call: operation, arguments, return statement taken

vars == <<pc, src, frame, buf, wire_len, decoded, router, out_port, mapped, pf, stats,
          tally, link, thread, ret, call>>

(***************************************************************************)
(* Bounds of the model                                                     *)
(***************************************************************************)
MaxPayloadLen == 2      \* longest frame payload the caller builds
MaxTx == 2              \* RouteFrame is not called on a link that has sent this many
MaxCalls == 2           \* successful packet Encode/Decode calls between resets
MaxThreadCalls == 4     \* packet calls the two execution contexts begin

(***************************************************************************)
(* Program constants                                                       *)
(***************************************************************************)
SW_FRAME_MAX_PAYLOAD == 65535
SW_MAX_VIRTUAL_CHANNELS == 16
SW_MAX_PORTS == 8
SW_LINK_UNINITIALIZED == 0
SW_LINK_READY == 1
SW_LINK_STARTED == 2
SW_LINK_CONNECTED == 3
SW_LINK_ERROR == 4

Byte == 0..255
U16 == 65536            \* modulus of uint16_t

\* A pointer is <<object, offset>>; NULL points nowhere.
NULL == <<"null", 0>>
PtrSrc == <<"src", 0>>

(***************************************************************************)
(* Integer helpers (C operators on unsigned values)                        *)
(***************************************************************************)
RECURSIVE Xor(_, _, _)
\* a ^ b on n-bit values
Xor(a, b, n) ==
  IF n = 0 THEN 0
  ELSE ((a + b) % 2) + 2 * Xor(a \div 2, b \div 2, n - 1)

\* a ^ b on bytes, tabulated
XorByte == [a \in Byte |-> [b \in Byte |-> Xor(a, b, 8)]]

\* a ^ b on uint16_t values
Xor16(a, b) ==
  XorByte[a \div 256][b \div 256] * 256 + XorByte[a % 256][b % 256]

(***************************************************************************)
(* CRC engine                                                              *)
(***************************************************************************)
CRC_POLY == 4129        \* 0x1021
CRC_INIT == 65535       \* 0xFFFF

RECURSIVE CrcShift(_, _)
\* k shift-and-reduce steps of the polynomial division, MSB first
CrcShift(crc, k) ==
  IF k = 0 THEN crc
  ELSE CrcShift(IF crc >= 32768
                  THEN Xor16((crc * 2) % U16, CRC_POLY)
                  ELSE (crc * 2) % U16, k - 1)

\* the 256-entry lookup table
sw_crc16_table == [i \in Byte |-> CrcShift(i * 256, 8)]

\* the register after the bytes data[lo..hi]: the table step for one byte, the
\* two halves one after the other for more (a long buffer is folded without
\* deep nesting)
RECURSIVE CrcRange(_, _, _, _)
CrcRange(crc, data, lo, hi) ==
  IF lo > hi THEN crc
  ELSE IF lo = hi
    THEN Xor16((crc * 256) % U16,
               sw_crc16_table[XorByte[crc \div 256][data[lo]]])
  ELSE CHOOSE r \in {CrcRange(left, data, (lo + hi) \div 2 + 1, hi) :
                        left \in {CrcRange(crc, data, lo, (lo + hi) \div 2)}} : TRUE

\* the register after the bytes data[i], data[i+1], ...
CrcFold(crc, data, i) == CrcRange(crc, data, i, Len(data))

\* Mutant of sw_crc16: the register starts at 0x0000.
sw_crc16_init0(data_ok, data) ==
  IF ~data_ok THEN CRC_INIT ELSE CrcFold(0, data, 1)

\* sw_crc16(data, len): data_ok is "data != NULL", data the len bytes
sw_crc16(data_ok, data) ==
  IF ~data_ok THEN CRC_INIT ELSE CrcFold(CRC_INIT, data, 1)

(***************************************************************************)
(* Character codec: a character is 8 data bits and a parity bit, even      *)
(* parity over the data bits; the values 0..3 are the control markers.     *)
(***************************************************************************)
SPACEWIRE_ESC == 0
SPACEWIRE_FCT == 1
SPACEWIRE_EOP == 2
SPACEWIRE_EEP == 3

SW_CHAR_OK == 0
SW_CHAR_ESCAPE == 1
SW_CHAR_FCT == 2
SW_CHAR_EOP == 3
SW_CHAR_EEP == 4
SW_CHAR_PARITY_ERROR == 5
SW_CHAR_INVALID == 6

\* the bit that makes the number of ones in the nine bits even
RECURSIVE calc_parity(_, _)
calc_parity(byte, bits) ==
  IF bits = 0 THEN 0
  ELSE ((byte % 2) + calc_parity(byte \div 2, bits - 1)) % 2

\* Mutant of sw_encode_char: the parity bit returned makes the nine bits odd.
sw_encode_char_odd(data, byte_ok, byte) ==
  IF ~byte_ok THEN [ret |-> 0, byte |-> byte]
  ELSE [ret |-> 1 - calc_parity(data, 8), byte |-> data]

\* sw_encode_char(data, byte): byte_ok is "byte != NULL", byte is *byte before
\* the call; yields the parity bit returned and *byte after the call
sw_encode_char(data, byte_ok, byte) ==
  IF ~byte_ok THEN [ret |-> 0, byte |-> byte]
  ELSE [ret |-> calc_parity(data, 8), byte |-> data]

\* Mutant of sw_decode_char: the control markers are recognised before the
\* parity is checked.
sw_decode_char_classify_first(byte, parity_bit, data_ok, data) ==
  IF ~data_ok THEN [ret |-> SW_CHAR_INVALID, data |-> data]
  ELSE IF byte = SPACEWIRE_ESC THEN [ret |-> SW_CHAR_ESCAPE, data |-> data]
  ELSE IF byte = SPACEWIRE_FCT THEN [ret |-> SW_CHAR_FCT, data |-> data]
  ELSE IF byte = SPACEWIRE_EOP THEN [ret |-> SW_CHAR_EOP, data |-> data]
  ELSE IF byte = SPACEWIRE_EEP THEN [ret |-> SW_CHAR_EEP, data |-> data]
  ELSE IF parity_bit # calc_parity(byte, 8)
    THEN [ret |-> SW_CHAR_PARITY_ERROR, data |-> data]
  ELSE [ret |-> SW_CHAR_OK, data |-> byte]

\* sw_decode_char(byte, parity_bit, data): data_ok is "data != NULL", data is
\* *data before the call; yields the result returned and *data after the call
sw_decode_char(byte, parity_bit, data_ok, data) ==
  IF ~data_ok THEN [ret |-> SW_CHAR_INVALID, data |-> data]
  ELSE IF parity_bit # calc_parity(byte, 8)
    THEN [ret |-> SW_CHAR_PARITY_ERROR, data |-> data]
  ELSE IF byte = SPACEWIRE_ESC THEN [ret |-> SW_CHAR_ESCAPE, data |-> data]
  ELSE IF byte = SPACEWIRE_FCT THEN [ret |-> SW_CHAR_FCT, data |-> data]
  ELSE IF byte = SPACEWIRE_EOP THEN [ret |-> SW_CHAR_EOP, data |-> data]
  ELSE IF byte = SPACEWIRE_EEP THEN [ret |-> SW_CHAR_EEP, data |-> data]
  ELSE [ret |-> SW_CHAR_OK, data |-> byte]

(***************************************************************************)
(* Frame codec                                                             *)
(***************************************************************************)
\* b with the bytes written at offsets off, off+1, ...
Put(b, off, bytes) ==
  [i \in 1..Len(b) |->
     IF i > off /\ i <= off + Len(bytes) THEN bytes[i - off] ELSE b[i]]

\* the n bytes a pointer refers to; mem maps each object to its bytes
Deref(mem, p, n) == SubSeq(mem[p[1]], p[2] + 1, p[2] + n)

sw_frame_init ==
  [target_addr |-> 0, protocol_id |-> 1, payload |-> NULL, payload_len |-> 0]

\* sw_frame_size(frame): frame_ok is "frame != NULL"
sw_frame_size(frame_ok, f) ==
  IF ~frame_ok THEN 0 ELSE 2 + f.payload_len + 2

\* Mutant of sw_frame_encode: the CRC trailer is written low byte first.
sw_frame_encode_crc_le(frame_ok, f, mem, buf_ok, b, buf_len) ==
  IF ~frame_ok \/ ~buf_ok
    THEN [ret |-> 0, buf |-> b, kind |-> "invalid_arg"]
  ELSE IF buf_len < sw_frame_size(frame_ok, f)
    THEN [ret |-> 0, buf |-> b, kind |-> "insufficient_buffer"]
  ELSE
    LET hdr == <<f.target_addr, f.protocol_id>>
        body == IF f.payload # NULL /\ f.payload_len > 0
                  THEN Deref(mem, f.payload, f.payload_len) ELSE <<>>
        offset == 2 + Len(body)
        b1 == Put(b, 0, hdr \o body)
        crc == sw_crc16(TRUE, SubSeq(b1, 1, offset))
        b2 == Put(b1, offset, <<crc % 256, (crc \div 256) % 256>>)
    IN  [ret |-> offset + 2, buf |-> b2, kind |-> "ok"]

\* Mutant of sw_frame_encode: the header is written before the room is checked.
sw_frame_encode_write_first(frame_ok, f, mem, buf_ok, b, buf_len) ==
  IF ~frame_ok \/ ~buf_ok
    THEN [ret |-> 0, buf |-> b, kind |-> "invalid_arg"]
  ELSE IF buf_len < sw_frame_size(frame_ok, f)
    THEN [ret |-> 0,
          buf |-> Put(b, 0, SubSeq(<<f.target_addr, f.protocol_id>>, 1, buf_len)),
          kind |-> "insufficient_buffer"]
  ELSE
    LET hdr == <<f.target_addr, f.protocol_id>>
        body == IF f.payload # NULL /\ f.payload_len > 0
                  THEN Deref(mem, f.payload, f.payload_len) ELSE <<>>
        offset == 2 + Len(body)
        b1 == Put(b, 0, hdr \o body)
        crc == sw_crc16(TRUE, SubSeq(b1, 1, offset))
        b2 == Put(b1, offset, <<(crc \div 256) % 256, crc % 256>>)
    IN  [ret |-> offset + 2, buf |-> b2, kind |-> "ok"]

\* sw_frame_encode(frame, buf, buf_len): mem is the memory frame->payload points
\* into, b the buffer before the call; yields the return value, the buffer after
\* the call and the return statement taken.
sw_frame_encode(frame_ok, f, mem, buf_ok, b, buf_len) ==
  IF ~frame_ok \/ ~buf_ok
    THEN [ret |-> 0, buf |-> b, kind |-> "invalid_arg"]
  ELSE IF buf_len < sw_frame_size(frame_ok, f)
    THEN [ret |-> 0, buf |-> b, kind |-> "insufficient_buffer"]
  ELSE
    LET hdr == <<f.target_addr, f.protocol_id>>
        body == IF f.payload # NULL /\ f.payload_len > 0
                  THEN Deref(mem, f.payload, f.payload_len) ELSE <<>>
        offset == 2 + Len(body)
        b1 == Put(b, 0, hdr \o body)
        crc == sw_crc16(TRUE, SubSeq(b1, 1, offset))
        b2 == Put(b1, offset, <<(crc \div 256) % 256, crc % 256>>)
    IN  [ret |-> offset + 2, buf |-> b2, kind |-> "ok"]

\* Mutant of sw_frame_decode: only the high byte of the CRC is compared.
sw_frame_decode_crc_hi(frame_ok, d, buf_ok, b, buf_len) ==
  IF ~frame_ok \/ ~buf_ok
    THEN [ret |-> 0, frame |-> d, kind |-> "invalid_arg"]
  ELSE IF buf_len < 4
    THEN [ret |-> 0, frame |-> d, kind |-> "too_short"]
  ELSE
    LET d1 == [d EXCEPT !.target_addr = b[1], !.protocol_id = b[2]]
        payload_len == buf_len - 4
        received_crc == b[buf_len - 1]
        calculated_crc == sw_crc16(TRUE, SubSeq(b, 1, buf_len - 2)) \div 256
    IN  IF received_crc # calculated_crc
          THEN [ret |-> 0, frame |-> d1, kind |-> "crc_mismatch"]
          ELSE [ret |-> 1,
                frame |-> [d1 EXCEPT !.payload = <<"buf", 2>>,
                                     !.payload_len = payload_len % U16],
                kind |-> "ok"]

\* sw_frame_decode(frame, buf, buf_len): d is *frame before the call; yields the
\* return value, *frame after the call and the return statement taken.
sw_frame_decode(frame_ok, d, buf_ok, b, buf_len) ==
  IF ~frame_ok \/ ~buf_ok
    THEN [ret |-> 0, frame |-> d, kind |-> "invalid_arg"]
  ELSE IF buf_len < 4
    THEN [ret |-> 0, frame |-> d, kind |-> "too_short"]
  ELSE
    LET d1 == [d EXCEPT !.target_addr = b[1], !.protocol_id = b[2]]
        payload_len == buf_len - 4
        received_crc == b[buf_len - 1] * 256 + b[buf_len]
        calculated_crc == sw_crc16(TRUE, SubSeq(b, 1, buf_len - 2))
    IN  IF received_crc # calculated_crc
          THEN [ret |-> 0, frame |-> d1, kind |-> "crc_mismatch"]
          ELSE [ret |-> 1,
                frame |-> [d1 EXCEPT !.payload = <<"buf", 2>>,
                                     !.payload_len = payload_len % U16],
                kind |-> "ok"]

(***************************************************************************)
(* Idle values of the parts of the state a specification does not use      *)
(***************************************************************************)
\* memory the program has not written: the 0xA5 fill the tests use
Fill == 165
UninitFrame ==
  [target_addr |-> Fill, protocol_id |-> Fill, payload |-> <<"wild", 0>>,
   payload_len |-> Fill * 256 + Fill]
NoCall == [op |-> "none"]

(***************************************************************************)
(* SpecFrame: a caller builds a frame, encodes it, may corrupt one byte    *)
(* of the encoded frame, and decodes.                                      *)
(***************************************************************************)
TargetAddrs == {1, 66}
ProtocolIds == {1, 2}
PayloadBytes == {0, 255}
BufCap == MaxPayloadLen + 5

Payloads == UNION {[1..n -> PayloadBytes] : n \in 0..MaxPayloadLen}

BuiltFrames ==
  \* payload present: payload_len is the length of the caller's array
  { <<m, [target_addr |-> t, protocol_id |-> p, payload |-> PtrSrc,
          payload_len |-> Len(m)]>> :
      m \in Payloads, t \in TargetAddrs, p \in ProtocolIds }
  \cup
  \* payload absent, any payload_len
  { <<(<<>>), [target_addr |-> t, protocol_id |-> 1, payload |-> NULL,
            payload_len |-> n]>> :
      t \in TargetAddrs, n \in 0..MaxPayloadLen }

\* the memory pointers refer to
Mem == [src |-> src, buf |-> buf]

IdleFrame ==
  /\ src = <<>>
  /\ frame = sw_frame_init
  /\ decoded = UninitFrame

IdleRouter ==
  /\ router = [num_ports |-> 0]
  /\ out_port = Fill
  /\ mapped = <<>>

IdlePacket ==
  /\ pf = [frame |-> sw_frame_init]
  /\ stats = <<>>
  /\ tally = <<>>

\* a sw_link_layer_t the program has not written
UninitLink ==
  [config |-> [bit_rate |-> Fill, disconnect_timeout |-> Fill,
               rx_credit_max |-> Fill, enable_crc |-> Fill],
   state |-> Fill, rx_credits |-> Fill, tx_credits |-> Fill]

IdleLink ==
  /\ link = UninitLink
  /\ thread = <<>>

InitFrame ==
  /\ pc = "built"
  /\ \E sf \in BuiltFrames : src = sf[1] /\ frame = sf[2]
  /\ buf = [i \in 1..BufCap |-> Fill]
  /\ wire_len = 0
  /\ decoded = UninitFrame
  /\ ret = 0
  /\ call = NoCall
  /\ IdleRouter
  /\ IdlePacket
  /\ IdleLink

FrameEncode ==
  /\ pc = "built"
  /\ \E frame_ok \in BOOLEAN, buf_ok \in BOOLEAN, buf_len \in 0..BufCap :
       \E r \in {sw_frame_encode(frame_ok, frame, Mem, buf_ok, buf, buf_len)} :
       /\ buf' = r.buf
       /\ wire_len' = IF r.ret > 0 THEN r.ret ELSE wire_len
       /\ ret' = r.ret
       /\ call' = [op |-> "frame_encode", frame_ok |-> frame_ok,
                   buf_ok |-> buf_ok, buf_len |-> buf_len, kind |-> r.kind]
       /\ pc' = IF r.ret > 0 THEN "encoded" ELSE "built"
  /\ UNCHANGED <<thread, link, src, frame, decoded, router, out_port, mapped, pf, stats, tally>>

\* line noise right after encoding: one byte of the encoded frame takes another value
Corrupt ==
  /\ pc = "encoded"
  /\ call.op = "frame_encode"
  /\ \E i \in 1..wire_len : \E v \in Byte \ {buf[i]} :
       /\ buf' = [buf EXCEPT ![i] = v]
       /\ call' = [op |-> "corrupt", pos |-> i]
  /\ pc' = "corrupted"
  /\ UNCHANGED <<thread, link, src, frame, wire_len, decoded, router, out_port, mapped, pf,
                 stats, tally, ret>>

FrameDecodeStep(frame_ok, buf_ok, buf_len, next_pc) ==
  \E r \in {sw_frame_decode(frame_ok, decoded, buf_ok, buf, buf_len)} :
  /\ decoded' = r.frame
  /\ ret' = r.ret
  /\ call' = [op |-> "frame_decode", frame_ok |-> frame_ok, buf_ok |-> buf_ok,
              buf_len |-> buf_len, kind |-> r.kind]
  /\ pc' = next_pc
  /\ UNCHANGED <<thread, link, src, frame, buf, wire_len, router, out_port, mapped, pf, stats,
                 tally>>

\* decode of the buffer as encoded, with any arguments
FrameDecode ==
  /\ pc = "encoded"
  /\ \E frame_ok \in BOOLEAN, buf_ok \in BOOLEAN, buf_len \in 0..BufCap :
       FrameDecodeStep(frame_ok, buf_ok, buf_len, "encoded")

\* decode of the corrupted frame, same length
FrameDecodeCorrupted ==
  /\ pc = "corrupted"
  /\ FrameDecodeStep(TRUE, TRUE, wire_len, "checked")

NextFrame == FrameEncode \/ Corrupt \/ FrameDecode \/ FrameDecodeCorrupted

SpecFrame == InitFrame /\ [][NextFrame]_vars

(***************************************************************************)
(* SpecWire: a receiver is handed a buffer whose last two bytes are the    *)
(* CRC of the bytes before them, of a length sw_frame_encode can produce   *)
(* or longer (buf_len is a size_t), and decodes it whole or cut short.     *)
(***************************************************************************)
\* the shortest buffer whose payload does not fit sw_frame_t.payload_len
WireLongLen == U16 + 4

\* header and payload of the buffers received
WireBodies ==
  {<<t, p>> \o m : t \in TargetAddrs, p \in ProtocolIds, m \in Payloads}
  \cup {[i \in 1..n - 2 |-> IF i = 1 THEN 66 ELSE 0] :
          n \in {WireLongLen, WireLongLen + 1}}

\* body followed by its CRC, high byte first
WithCrc(body) ==
  CHOOSE w \in {body \o <<crc \div 256, crc % 256>> :
                  crc \in {sw_crc16(TRUE, body)}} : TRUE

InitWire ==
  /\ pc = "wire"
  /\ \E body \in WireBodies : buf = WithCrc(body)
  /\ wire_len = Len(buf)
  /\ decoded = UninitFrame
  /\ ret = 0
  /\ call = NoCall
  /\ src = <<>>
  /\ frame = sw_frame_init
  /\ IdleRouter
  /\ IdlePacket
  /\ IdleLink

\* the <<absent argument, bytes cut off the end>> of the Decode calls
WireCalls == ({"none", "frame", "buf"} \X {0}) \cup {<<"none", 1>>}

\* sw_frame_decode of the whole buffer, or of all but its last byte
WireDecode ==
  /\ pc = "wire"
  /\ \E a \in WireCalls :
       \E r \in {sw_frame_decode(a[1] # "frame", decoded, a[1] # "buf", buf,
                                  wire_len - a[2])} :
       /\ decoded' = r.frame
       /\ ret' = r.ret
       /\ call' = [op |-> "wire_decode", missing |-> a[1],
                   buf_len |-> wire_len - a[2], kind |-> r.kind]
  /\ UNCHANGED <<pc, src, frame, buf, wire_len, router, out_port, mapped, pf,
                 stats, tally, link, thread>>

NextWire == WireDecode

SpecWire == InitWire /\ [][NextWire]_vars

(***************************************************************************)
(* Router                                                                  *)
(***************************************************************************)
ZeroLink == [port_id |-> 0, state |-> 0, tx_packets |-> 0, rx_packets |-> 0,
             errors |-> 0]
ZeroChannel == [channel_id |-> 0, active |-> 0, fct_credits |-> 0]
ZeroRoute == [dest_addr |-> 0, output_port |-> 0]

\* memset(router, 0, sizeof(sw_router_t))
ZeroRouter ==
  [links |-> [i \in 0..SW_MAX_PORTS - 1 |-> ZeroLink],
   channels |-> [i \in 0..SW_MAX_VIRTUAL_CHANNELS - 1 |-> ZeroChannel],
   routes |-> [i \in 0..SW_MAX_PORTS - 1 |-> ZeroRoute],
   device_addr |-> 0,
   num_ports |-> 0]

\* Mutant of sw_router_init: the memset is missing.
sw_router_init_no_memset(router_ok, r, device_addr, num_ports) ==
  IF ~router_ok THEN r
  ELSE
    LET n == IF num_ports <= SW_MAX_PORTS THEN num_ports ELSE SW_MAX_PORTS IN
    [r EXCEPT
       !.device_addr = device_addr,
       !.num_ports = n,
       !.links = [i \in 0..SW_MAX_PORTS - 1 |->
                    IF i < n
                      THEN [r.links[i] EXCEPT !.port_id = i,
                                              !.state = SW_LINK_UNINITIALIZED]
                      ELSE r.links[i]],
       !.channels = [i \in 0..SW_MAX_VIRTUAL_CHANNELS - 1 |->
                       [channel_id |-> i, active |-> 0, fct_credits |-> 64]]]

\* sw_router_init(router, device_addr, num_ports): the router after the call
sw_router_init(router_ok, r, device_addr, num_ports) ==
  IF ~router_ok THEN r
  ELSE
    LET n == IF num_ports <= SW_MAX_PORTS THEN num_ports ELSE SW_MAX_PORTS IN
    [ZeroRouter EXCEPT
       !.device_addr = device_addr,
       !.num_ports = n,
       !.links = [i \in 0..SW_MAX_PORTS - 1 |->
                    IF i < n
                      THEN [ZeroLink EXCEPT !.port_id = i,
                                            !.state = SW_LINK_UNINITIALIZED]
                      ELSE ZeroLink],
       !.channels = [i \in 0..SW_MAX_VIRTUAL_CHANNELS - 1 |->
                       [channel_id |-> i, active |-> 0, fct_credits |-> 64]]]

\* the guard of sw_router_add_route: TRUE when the call is ignored
AddRouteRejected(router_ok, r, dest_addr, output_port) ==
  ~router_ok \/ dest_addr >= SW_MAX_PORTS \/ output_port >= r.num_ports

\* Mutant of sw_router_add_route: output_port is compared with the port
\* capacity, not with num_ports.
sw_router_add_route_any_port(router_ok, r, dest_addr, output_port) ==
  IF ~router_ok \/ dest_addr >= SW_MAX_PORTS \/ output_port >= SW_MAX_PORTS THEN r
  ELSE [r EXCEPT !.routes[dest_addr] =
                    [dest_addr |-> dest_addr, output_port |-> output_port]]

\* Mutant of sw_router_add_route: adding a route brings its link up.
sw_router_add_route_connects(router_ok, r, dest_addr, output_port) ==
  IF AddRouteRejected(router_ok, r, dest_addr, output_port) THEN r
  ELSE [r EXCEPT !.routes[dest_addr] =
                    [dest_addr |-> dest_addr, output_port |-> output_port],
                 !.links[output_port].state = SW_LINK_CONNECTED]

\* sw_router_add_route(router, dest_addr, output_port): the router after the call
sw_router_add_route(router_ok, r, dest_addr, output_port) ==
  IF AddRouteRejected(router_ok, r, dest_addr, output_port) THEN r
  ELSE [r EXCEPT !.routes[dest_addr] =
                    [dest_addr |-> dest_addr, output_port |-> output_port]]

\* Mutant of sw_router_open_channel: the active flag is flipped, not set.
sw_router_open_channel_toggle(router_ok, r, channel_id) ==
  IF ~router_ok \/ channel_id >= SW_MAX_VIRTUAL_CHANNELS
    THEN [ret |-> 0, router |-> r]
    ELSE [ret |-> 1,
          router |-> [r EXCEPT !.channels[channel_id].active = 1 - @]]

\* sw_router_open_channel(router, channel_id)
sw_router_open_channel(router_ok, r, channel_id) ==
  IF ~router_ok \/ channel_id >= SW_MAX_VIRTUAL_CHANNELS
    THEN [ret |-> 0, router |-> r]
    ELSE [ret |-> 1, router |-> [r EXCEPT !.channels[channel_id].active = 1]]

\* Mutant of sw_router_route_frame: the received counter is bumped, not the
\* transmitted one.
sw_router_route_frame_no_count(router_ok, r, frame_ok, f, out_ok, out) ==
  IF ~router_ok \/ ~frame_ok \/ ~out_ok
    THEN [ret |-> 0, router |-> r, output_port |-> out, kind |-> "invalid_arg"]
  ELSE IF f.target_addr = r.device_addr
    THEN [ret |-> 0, router |-> r, output_port |-> out, kind |-> "local"]
  ELSE IF f.target_addr >= SW_MAX_PORTS
    THEN [ret |-> 0, router |-> r, output_port |-> out, kind |-> "bad_dest"]
  ELSE
    LET port == r.routes[f.target_addr].output_port IN
    IF port >= r.num_ports
      THEN [ret |-> 0, router |-> r, output_port |-> out, kind |-> "bad_port"]
    ELSE IF r.links[port].state # SW_LINK_CONNECTED
      THEN [ret |-> 0, router |-> r, output_port |-> out, kind |-> "link_down"]
    ELSE [ret |-> 1,
          router |-> [r EXCEPT !.links[port].rx_packets = @ + 1],
          output_port |-> port,
          kind |-> "routed"]

\* Mutant of sw_router_route_frame: only an uninitialised link is refused.
sw_router_route_frame_any_link(router_ok, r, frame_ok, f, out_ok, out) ==
  IF ~router_ok \/ ~frame_ok \/ ~out_ok
    THEN [ret |-> 0, router |-> r, output_port |-> out, kind |-> "invalid_arg"]
  ELSE IF f.target_addr = r.device_addr
    THEN [ret |-> 0, router |-> r, output_port |-> out, kind |-> "local"]
  ELSE IF f.target_addr >= SW_MAX_PORTS
    THEN [ret |-> 0, router |-> r, output_port |-> out, kind |-> "bad_dest"]
  ELSE
    LET port == r.routes[f.target_addr].output_port IN
    IF port >= r.num_ports
      THEN [ret |-> 0, router |-> r, output_port |-> out, kind |-> "bad_port"]
    ELSE IF r.links[port].state = SW_LINK_UNINITIALIZED
      THEN [ret |-> 0, router |-> r, output_port |-> out, kind |-> "link_down"]
    ELSE [ret |-> 1,
          router |-> [r EXCEPT !.links[port].tx_packets = @ + 1],
          output_port |-> port,
          kind |-> "routed"]

\* Mutant of sw_router_route_frame: no local-delivery check.
sw_router_route_frame_no_local(router_ok, r, frame_ok, f, out_ok, out) ==
  IF ~router_ok \/ ~frame_ok \/ ~out_ok
    THEN [ret |-> 0, router |-> r, output_port |-> out, kind |-> "invalid_arg"]
  ELSE IF FALSE
    THEN [ret |-> 0, router |-> r, output_port |-> out, kind |-> "local"]
  ELSE IF f.target_addr >= SW_MAX_PORTS
    THEN [ret |-> 0, router |-> r, output_port |-> out, kind |-> "bad_dest"]
  ELSE
    LET port == r.routes[f.target_addr].output_port IN
    IF port >= r.num_ports
      THEN [ret |-> 0, router |-> r, output_port |-> out, kind |-> "bad_port"]
    ELSE IF r.links[port].state # SW_LINK_CONNECTED
      THEN [ret |-> 0, router |-> r, output_port |-> out, kind |-> "link_down"]
    ELSE [ret |-> 1,
          router |-> [r EXCEPT !.links[port].tx_packets = @ + 1],
          output_port |-> port,
          kind |-> "routed"]

\* Mutant of sw_router_route_frame: *output_port is written before the link
\* state is checked.
sw_router_route_frame_early_port(router_ok, r, frame_ok, f, out_ok, out) ==
  IF ~router_ok \/ ~frame_ok \/ ~out_ok
    THEN [ret |-> 0, router |-> r, output_port |-> out, kind |-> "invalid_arg"]
  ELSE IF f.target_addr = r.device_addr
    THEN [ret |-> 0, router |-> r, output_port |-> out, kind |-> "local"]
  ELSE IF f.target_addr >= SW_MAX_PORTS
    THEN [ret |-> 0, router |-> r, output_port |-> out, kind |-> "bad_dest"]
  ELSE
    LET port == r.routes[f.target_addr].output_port IN
    IF port >= r.num_ports
      THEN [ret |-> 0, router |-> r, output_port |-> out, kind |-> "bad_port"]
    ELSE IF r.links[port].state # SW_LINK_CONNECTED
      THEN [ret |-> 0, router |-> r, output_port |-> port, kind |-> "link_down"]
    ELSE [ret |-> 1,
          router |-> [r EXCEPT !.links[port].tx_packets = @ + 1],
          output_port |-> port,
          kind |-> "routed"]

\* sw_router_route_frame(router, frame, output_port): out is *output_port before
\* the call; yields the return value, the router and *output_port after the call
\* and the return statement taken.
sw_router_route_frame(router_ok, r, frame_ok, f, out_ok, out) ==
  IF ~router_ok \/ ~frame_ok \/ ~out_ok
    THEN [ret |-> 0, router |-> r, output_port |-> out, kind |-> "invalid_arg"]
  ELSE IF f.target_addr = r.device_addr
    THEN [ret |-> 0, router |-> r, output_port |-> out, kind |-> "local"]
  ELSE IF f.target_addr >= SW_MAX_PORTS
    THEN [ret |-> 0, router |-> r, output_port |-> out, kind |-> "bad_dest"]
  ELSE
    LET port == r.routes[f.target_addr].output_port IN
    IF port >= r.num_ports
      THEN [ret |-> 0, router |-> r, output_port |-> out, kind |-> "bad_port"]
    ELSE IF r.links[port].state # SW_LINK_CONNECTED
      THEN [ret |-> 0, router |-> r, output_port |-> out, kind |-> "link_down"]
    ELSE [ret |-> 1,
          router |-> [r EXCEPT !.links[port].tx_packets = @ + 1],
          output_port |-> port,
          kind |-> "routed"]

(***************************************************************************)
(* SpecRouter: a caller initialises a router, configures routes and        *)
(* channels, writes link states (router.links[p].state = s, as the tests   *)
(* and the example do) and routes frames.                                  *)
(***************************************************************************)
DeviceAddrs == {1, 2}
PortCounts == {0, 1, 10}
DestAddrs == {1, 2, 8}
OutPorts == {0, 1, 8}
ChannelIds == {3, 16}
LinkStates == {SW_LINK_UNINITIALIZED, SW_LINK_READY, SW_LINK_STARTED,
               SW_LINK_CONNECTED, SW_LINK_ERROR}
\* the <<port, state>> the caller writes: every state on port 0, up and down on port 1
LinkWrites == ({0} \X LinkStates)
              \cup ({1} \X {SW_LINK_UNINITIALIZED, SW_LINK_CONNECTED})
RouteTargets == {1, 2, 3, 8}
\* the <<target_addr, absent argument>> of the RouteFrame calls
RouteCalls == (RouteTargets \X {"none"})
              \cup ({2} \X {"router", "frame", "output_port"})

NoRoutes == [d \in 0..SW_MAX_PORTS - 1 |-> {}]

\* history: per port, the RouteFrame calls that returned 1 with it since Init
NoneRouted == [p \in 0..SW_MAX_PORTS - 1 |-> 0]

\* frames routed since Init
Sent(r) == r.links[0].tx_packets + r.links[1].tx_packets

\* the router has routed a frame, has a route and has an open channel
Dirty(r) ==
  /\ Sent(r) > 0
  /\ \E d \in 0..SW_MAX_PORTS - 1 : r.routes[d] # ZeroRoute
  /\ \E c \in 0..SW_MAX_VIRTUAL_CHANNELS - 1 : r.channels[c].active = 1

InitRouter ==
  /\ pc = "router"
  /\ \E d \in DeviceAddrs, n \in PortCounts :
       /\ router = sw_router_init(TRUE, ZeroRouter, d, n)
       /\ call = [op |-> "router_init", device_addr |-> d, num_ports |-> n,
                  dirty |-> FALSE]
  /\ out_port = Fill
  /\ mapped = NoRoutes
  /\ ret = 0
  /\ buf = <<>>
  /\ wire_len = 0
  /\ IdleFrame
  /\ pf = [frame |-> sw_frame_init]
  /\ stats = <<>>
  /\ tally = NoneRouted
  /\ IdleLink

RouterInit ==
  /\ pc = "router"
  /\ \E d \in DeviceAddrs, n \in PortCounts :
       /\ router' = sw_router_init(TRUE, router, d, n)
       /\ call' = [op |-> "router_init", device_addr |-> d, num_ports |-> n,
                   dirty |-> Dirty(router)]
  /\ mapped' = NoRoutes
  /\ tally' = NoneRouted
  /\ UNCHANGED <<thread, link, pc, src, frame, buf, wire_len, decoded, out_port, pf, stats,
                 ret>>

AddRoute ==
  /\ pc = "router"
  /\ \E d \in DestAddrs, p \in OutPorts :
       /\ router' = sw_router_add_route(TRUE, router, d, p)
       /\ call' = [op |-> "add_route", dest_addr |-> d, output_port |-> p]
       /\ mapped' = IF AddRouteRejected(TRUE, router, d, p)
                      THEN mapped ELSE [mapped EXCEPT ![d] = {p}]
  /\ UNCHANGED <<thread, link, pc, src, frame, buf, wire_len, decoded, out_port, pf, stats,
                 tally, ret>>

OpenChannel ==
  /\ pc = "router"
  /\ \E c \in ChannelIds :
       \E r \in {sw_router_open_channel(TRUE, router, c)} :
       /\ router' = r.router
       /\ ret' = r.ret
       /\ call' = [op |-> "open_channel", channel_id |-> c]
  /\ UNCHANGED <<thread, link, pc, src, frame, buf, wire_len, decoded, out_port, mapped, pf,
                 stats, tally>>

\* the caller's router.links[p].state = s
SetLinkState ==
  /\ pc = "router"
  /\ \E w \in LinkWrites :
       /\ router' = [router EXCEPT !.links[w[1]].state = w[2]]
       /\ call' = [op |-> "set_link_state"]
  /\ UNCHANGED <<thread, link, pc, src, frame, buf, wire_len, decoded, out_port, mapped, pf,
                 stats, tally, ret>>

RouteFrame ==
  /\ pc = "router"
  /\ Sent(router) < MaxTx
  /\ \E rc \in RouteCalls :
       LET t == rc[1]
           missing == rc[2]
           f == [sw_frame_init EXCEPT !.target_addr = t]
       IN
       \E r \in {sw_router_route_frame(missing # "router", router,
                                        missing # "frame", f,
                                        missing # "output_port", out_port)} :
       /\ router' = r.router
       /\ out_port' = r.output_port
       /\ ret' = r.ret
       /\ tally' = IF r.ret = 1 THEN [tally EXCEPT ![r.output_port] = @ + 1]
                   ELSE tally
       /\ call' = [op |-> "route_frame", target_addr |-> t, missing |-> missing,
                   kind |-> r.kind]
  /\ UNCHANGED <<thread, link, pc, src, frame, buf, wire_len, decoded, mapped, pf, stats>>

NextRouter == RouterInit \/ AddRoute \/ OpenChannel \/ SetLinkState \/ RouteFrame

SpecRouter == InitRouter /\ [][NextRouter]_vars

(***************************************************************************)
(* Link layer                                                              *)
(***************************************************************************)
\* sw_link_init(link, config): l is *link before the call; yields it after
sw_link_init(link_ok, l, config_ok, config) ==
  IF ~link_ok \/ ~config_ok THEN l
  ELSE [config |-> config, state |-> SW_LINK_UNINITIALIZED,
        rx_credits |-> config.rx_credit_max, tx_credits |-> 0]

sw_link_get_state(link_ok, l) ==
  IF ~link_ok THEN SW_LINK_ERROR ELSE l.state

\* Mutant of sw_link_set_state: a link is never moved to a lower state.
sw_link_set_state_upward(link_ok, l, state) ==
  IF ~link_ok \/ state < l.state THEN l ELSE [l EXCEPT !.state = state]

\* sw_link_set_state(link, state): l is *link before the call; yields it after
sw_link_set_state(link_ok, l, state) ==
  IF ~link_ok THEN l ELSE [l EXCEPT !.state = state]

(***************************************************************************)
(* SpecLink: a caller initialises its link object with one of its          *)
(* configurations, then sets and reads the state in any order.             *)
(***************************************************************************)
LinkConfigs ==
  {[bit_rate |-> 1000000, disconnect_timeout |-> 2500, rx_credit_max |-> c,
    enable_crc |-> 1] : c \in {0, 12, 255}}

InitLink ==
  /\ pc = "link"
  /\ IdleLink
  /\ tally = <<>>
  /\ ret = 0
  /\ call = NoCall
  /\ buf = <<>>
  /\ wire_len = 0
  /\ pf = [frame |-> sw_frame_init]
  /\ stats = <<>>
  /\ IdleFrame
  /\ IdleRouter

LinkInit ==
  /\ pc \in {"link", "router"}
  /\ \E link_ok \in BOOLEAN, config_ok \in BOOLEAN, config \in LinkConfigs :
       /\ link' = sw_link_init(link_ok, link, config_ok, config)
       /\ call' = [op |-> "link_init", link_ok |-> link_ok,
                   config_ok |-> config_ok, config |-> config]
       /\ tally' = IF pc = "link" /\ link_ok /\ config_ok
                      THEN <<SW_LINK_UNINITIALIZED>> ELSE tally
  /\ UNCHANGED <<thread, pc, src, frame, buf, wire_len, decoded, router, out_port, mapped,
                 pf, stats, ret>>

\* the caller sets the state of the link object it has initialised
LinkSetState ==
  /\ pc \in {"link", "router"}
  /\ link # UninitLink
  /\ \E link_ok \in BOOLEAN, state \in LinkStates :
       /\ link' = sw_link_set_state(link_ok, link, state)
       /\ call' = [op |-> "link_set_state", link_ok |-> link_ok,
                   from |-> link.state, state |-> state]
       /\ tally' = IF pc = "link" /\ link_ok THEN <<state>> ELSE tally
  /\ UNCHANGED <<thread, pc, src, frame, buf, wire_len, decoded, router, out_port, mapped,
                 pf, stats, ret>>

LinkGetState ==
  /\ pc = "link"
  /\ link # UninitLink
  /\ \E link_ok \in BOOLEAN :
       /\ ret' = sw_link_get_state(link_ok, link)
       /\ call' = [op |-> "link_get_state", link_ok |-> link_ok]
  /\ UNCHANGED <<thread, pc, src, frame, buf, wire_len, decoded, router, out_port, mapped,
                 pf, stats, tally, link>>

NextLink == LinkInit \/ LinkSetState \/ LinkGetState

SpecLink == InitLink /\ [][NextLink]_vars

(***************************************************************************)
(* SpecRouterOwn: the router is used through its own operations only, next *)
(* to a link object of the caller that is initialised and set to any       *)
(* state with sw_link_init and sw_link_set_state.                          *)
(***************************************************************************)
NextRouterOwn ==
  \/ RouterInit \/ AddRoute \/ OpenChannel \/ RouteFrame
  \/ LinkInit \/ LinkSetState

SpecRouterOwn == InitRouter /\ [][NextRouterOwn]_vars

(***************************************************************************)
(* External packet codec (EmbeddedSpacePacket): a CCSDS space packet with  *)
(* a 6-byte primary header and no secondary header.  The data length field *)
(* holds the payload length minus one, so an empty payload cannot be       *)
(* serialized.                                                             *)
(***************************************************************************)
SP_PRIMARY_HEADER_LEN == 6

sp_packet_init ==
  [ph |-> [version |-> 0, type |-> 0, sec_hdr_flag |-> 0, apid |-> 0],
   payload |-> NULL, payload_len |-> 0]

\* sp_packet_serialize_size(packet): 0 when the packet cannot be serialized
sp_packet_serialize_size(p) ==
  IF p.payload_len = 0 THEN 0 ELSE SP_PRIMARY_HEADER_LEN + p.payload_len

\* sp_packet_serialize(packet, buf, cap): the bytes written, <<>> on failure
sp_packet_serialize(p, mem, cap) ==
  IF p.payload = NULL \/ p.payload_len = 0
       \/ sp_packet_serialize_size(p) > cap
    THEN <<>>
    ELSE << p.ph.version * 32 + p.ph.type * 16 + p.ph.sec_hdr_flag * 8
              + p.ph.apid \div 256,
            p.ph.apid % 256, 0, 0,
            (p.payload_len - 1) \div 256, (p.payload_len - 1) % 256 >>
         \o Deref(mem, p.payload, p.payload_len)

\* sp_packet_parse(packet, buf, len): ptr points at the len bytes data;
\* yields the return value and the packet after the call
sp_packet_parse(p, ptr, data) ==
  IF Len(data) < SP_PRIMARY_HEADER_LEN
       \/ Len(data) # SP_PRIMARY_HEADER_LEN + data[5] * 256 + data[6] + 1
    THEN [ret |-> 0, packet |-> p]
    ELSE [ret |-> 1,
          packet |-> [ph |-> [version |-> data[1] \div 32,
                              type |-> (data[1] \div 16) % 2,
                              sec_hdr_flag |-> (data[1] \div 8) % 2,
                              apid |-> (data[1] % 8) * 256 + data[2]],
                      payload |-> <<ptr[1], ptr[2] + SP_PRIMARY_HEADER_LEN>>,
                      payload_len |-> Len(data) - SP_PRIMARY_HEADER_LEN]]

(***************************************************************************)
(* Packet integration layer                                                *)
(***************************************************************************)
ZeroStats ==
  [packets_sent |-> 0, packets_received |-> 0, crc_errors |-> 0,
   frame_errors |-> 0, link_errors |-> 0, bytes_sent |-> 0,
   bytes_received |-> 0]

\* sw_packet_init(pf, config): the context after the call
sw_packet_init(pf_ok, c, config_ok, config) ==
  IF ~pf_ok \/ ~config_ok THEN c
  ELSE [frame |-> [target_addr |-> config.target_addr,
                   protocol_id |-> config.protocol_id,
                   payload |-> NULL, payload_len |-> 0],
        packet |-> [sp_packet_init EXCEPT
                      !.ph.version = 0, !.ph.type = 1,
                      !.ph.sec_hdr_flag = 0, !.ph.apid = 0]]

\* Mutant of sw_packet_encode: the frame header is not taken from the context.
sw_packet_encode_fresh_frame(pf_ok, c, mem, buf_ok, b, buf_len, st) ==
  IF ~pf_ok \/ ~buf_ok
    THEN [ret |-> 0, buf |-> b, stats |-> st, kind |-> "invalid_arg"]
  ELSE
    LET pkt_size == sp_packet_serialize_size(c.packet) IN
    IF pkt_size = 0 \/ pkt_size > SW_FRAME_MAX_PAYLOAD
      THEN [ret |-> 0, buf |-> b, stats |-> st, kind |-> "encoding_overflow"]
    ELSE
      LET pkt_buf == sp_packet_serialize(c.packet, mem, SW_FRAME_MAX_PAYLOAD)
          serialized == Len(pkt_buf)
      IN
      IF serialized = 0
        THEN [ret |-> 0, buf |-> b, stats |-> st, kind |-> "serialize_failed"]
      ELSE
        LET f == [sw_frame_init EXCEPT !.payload = <<"pkt_buf", 0>>,
                                 !.payload_len = serialized % U16]
            e == sw_frame_encode(TRUE, f,
                                 [src |-> mem.src, buf |-> mem.buf,
                                  pkt_buf |-> pkt_buf],
                                 TRUE, b, buf_len)
        IN
        IF e.ret > 0
          THEN [ret |-> e.ret, buf |-> e.buf,
                stats |-> [st EXCEPT !.packets_sent = @ + 1,
                                     !.bytes_sent = @ + e.ret],
                kind |-> "ok"]
          ELSE [ret |-> 0, buf |-> e.buf, stats |-> st, kind |-> e.kind]

\* Mutant of sw_packet_encode: the payload length is cut to its low three bits.
sw_packet_encode_truncated(pf_ok, c, mem, buf_ok, b, buf_len, st) ==
  IF ~pf_ok \/ ~buf_ok
    THEN [ret |-> 0, buf |-> b, stats |-> st, kind |-> "invalid_arg"]
  ELSE
    LET pkt_size == sp_packet_serialize_size(c.packet) IN
    IF pkt_size = 0 \/ pkt_size > SW_FRAME_MAX_PAYLOAD
      THEN [ret |-> 0, buf |-> b, stats |-> st, kind |-> "encoding_overflow"]
    ELSE
      LET pkt_buf == sp_packet_serialize(c.packet, mem, SW_FRAME_MAX_PAYLOAD)
          serialized == Len(pkt_buf)
      IN
      IF serialized = 0
        THEN [ret |-> 0, buf |-> b, stats |-> st, kind |-> "serialize_failed"]
      ELSE
        LET f == [c.frame EXCEPT !.payload = <<"pkt_buf", 0>>,
                                 !.payload_len = serialized % 8]
            e == sw_frame_encode(TRUE, f,
                                 [src |-> mem.src, buf |-> mem.buf,
                                  pkt_buf |-> pkt_buf],
                                 TRUE, b, buf_len)
        IN
        IF e.ret > 0
          THEN [ret |-> e.ret, buf |-> e.buf,
                stats |-> [st EXCEPT !.packets_sent = @ + 1,
                                     !.bytes_sent = @ + e.ret],
                kind |-> "ok"]
          ELSE [ret |-> 0, buf |-> e.buf, stats |-> st, kind |-> e.kind]

\* Mutant of sw_packet_encode: a frame that did not fit is counted as sent.
sw_packet_encode_counts_attempts(pf_ok, c, mem, buf_ok, b, buf_len, st) ==
  IF ~pf_ok \/ ~buf_ok
    THEN [ret |-> 0, buf |-> b, stats |-> st, kind |-> "invalid_arg"]
  ELSE
    LET pkt_size == sp_packet_serialize_size(c.packet) IN
    IF pkt_size = 0 \/ pkt_size > SW_FRAME_MAX_PAYLOAD
      THEN [ret |-> 0, buf |-> b, stats |-> st, kind |-> "encoding_overflow"]
    ELSE
      LET pkt_buf == sp_packet_serialize(c.packet, mem, SW_FRAME_MAX_PAYLOAD)
          serialized == Len(pkt_buf)
      IN
      IF serialized = 0
        THEN [ret |-> 0, buf |-> b, stats |-> st, kind |-> "serialize_failed"]
      ELSE
        LET f == [c.frame EXCEPT !.payload = <<"pkt_buf", 0>>,
                                 !.payload_len = serialized % U16]
            e == sw_frame_encode(TRUE, f,
                                 [src |-> mem.src, buf |-> mem.buf,
                                  pkt_buf |-> pkt_buf],
                                 TRUE, b, buf_len)
        IN
        IF e.ret > 0
          THEN [ret |-> e.ret, buf |-> e.buf,
                stats |-> [st EXCEPT !.packets_sent = @ + 1,
                                     !.bytes_sent = @ + e.ret],
                kind |-> "ok"]
          ELSE [ret |-> 0, buf |-> e.buf,
                stats |-> [st EXCEPT !.packets_sent = @ + 1], kind |-> e.kind]

\* sw_packet_encode(pf, buf, buf_len): st is g_sw_stats before the call; yields
\* the return value, the buffer and g_sw_stats after the call and the return
\* statement taken.
sw_packet_encode(pf_ok, c, mem, buf_ok, b, buf_len, st) ==
  IF ~pf_ok \/ ~buf_ok
    THEN [ret |-> 0, buf |-> b, stats |-> st, kind |-> "invalid_arg"]
  ELSE
    LET pkt_size == sp_packet_serialize_size(c.packet) IN
    IF pkt_size = 0 \/ pkt_size > SW_FRAME_MAX_PAYLOAD
      THEN [ret |-> 0, buf |-> b, stats |-> st, kind |-> "encoding_overflow"]
    ELSE
      LET pkt_buf == sp_packet_serialize(c.packet, mem, SW_FRAME_MAX_PAYLOAD)
          serialized == Len(pkt_buf)
      IN
      IF serialized = 0
        THEN [ret |-> 0, buf |-> b, stats |-> st, kind |-> "serialize_failed"]
      ELSE
        LET f == [c.frame EXCEPT !.payload = <<"pkt_buf", 0>>,
                                 !.payload_len = serialized % U16]
            e == sw_frame_encode(TRUE, f,
                                 [src |-> mem.src, buf |-> mem.buf,
                                  pkt_buf |-> pkt_buf],
                                 TRUE, b, buf_len)
        IN
        IF e.ret > 0
          THEN [ret |-> e.ret, buf |-> e.buf,
                stats |-> [st EXCEPT !.packets_sent = @ + 1,
                                     !.bytes_sent = @ + e.ret],
                kind |-> "ok"]
          ELSE [ret |-> 0, buf |-> e.buf, stats |-> st, kind |-> e.kind]

\* Mutant of sw_packet_decode: bytes_received counts the frame payload only.
sw_packet_decode_payload_bytes(pf_ok, c, buf_ok, b, buf_len, st) ==
  IF ~pf_ok \/ ~buf_ok
    THEN [ret |-> 0, pf |-> c, stats |-> st, kind |-> "invalid_arg"]
  ELSE
    LET d == sw_frame_decode(TRUE, c.frame, TRUE, b, buf_len) IN
    IF d.ret = 0
      THEN [ret |-> 0, pf |-> [c EXCEPT !.frame = d.frame], stats |-> st,
            kind |-> d.kind]
    ELSE
      LET q == sp_packet_parse(c.packet, d.frame.payload,
                               Deref([buf |-> b], d.frame.payload,
                                     d.frame.payload_len))
          c1 == [frame |-> d.frame, packet |-> q.packet]
      IN
      IF q.ret = 0
        THEN [ret |-> 0, pf |-> c1, stats |-> st, kind |-> "parse_failed"]
        ELSE [ret |-> 1, pf |-> c1,
              stats |-> [st EXCEPT !.packets_received = @ + 1,
                                   !.bytes_received = @ + d.frame.payload_len],
              kind |-> "ok"]

\* Mutant of sw_packet_decode: a frame that fails its CRC check is counted.
sw_packet_decode_counts_crc(pf_ok, c, buf_ok, b, buf_len, st) ==
  IF ~pf_ok \/ ~buf_ok
    THEN [ret |-> 0, pf |-> c, stats |-> st, kind |-> "invalid_arg"]
  ELSE
    LET d == sw_frame_decode(TRUE, c.frame, TRUE, b, buf_len) IN
    IF d.ret = 0
      THEN [ret |-> 0, pf |-> [c EXCEPT !.frame = d.frame],
            stats |-> IF d.kind = "crc_mismatch"
                        THEN [st EXCEPT !.crc_errors = @ + 1] ELSE st,
            kind |-> d.kind]
    ELSE
      LET q == sp_packet_parse(c.packet, d.frame.payload,
                               Deref([buf |-> b], d.frame.payload,
                                     d.frame.payload_len))
          c1 == [frame |-> d.frame, packet |-> q.packet]
      IN
      IF q.ret = 0
        THEN [ret |-> 0, pf |-> c1, stats |-> st, kind |-> "parse_failed"]
        ELSE [ret |-> 1, pf |-> c1,
              stats |-> [st EXCEPT !.packets_received = @ + 1,
                                   !.bytes_received = @ + buf_len],
              kind |-> "ok"]

\* sw_packet_decode(pf, buf, buf_len): c is *pf and st g_sw_stats before the
\* call; yields the return value, *pf and g_sw_stats after the call and the
\* return statement taken.
sw_packet_decode(pf_ok, c, buf_ok, b, buf_len, st) ==
  IF ~pf_ok \/ ~buf_ok
    THEN [ret |-> 0, pf |-> c, stats |-> st, kind |-> "invalid_arg"]
  ELSE
    LET d == sw_frame_decode(TRUE, c.frame, TRUE, b, buf_len) IN
    IF d.ret = 0
      THEN [ret |-> 0, pf |-> [c EXCEPT !.frame = d.frame], stats |-> st,
            kind |-> d.kind]
    ELSE
      LET q == sp_packet_parse(c.packet, d.frame.payload,
                               Deref([buf |-> b], d.frame.payload,
                                     d.frame.payload_len))
          c1 == [frame |-> d.frame, packet |-> q.packet]
      IN
      IF q.ret = 0
        THEN [ret |-> 0, pf |-> c1, stats |-> st, kind |-> "parse_failed"]
        ELSE [ret |-> 1, pf |-> c1,
              stats |-> [st EXCEPT !.packets_received = @ + 1,
                                   !.bytes_received = @ + buf_len],
              kind |-> "ok"]

\* Mutant of sw_packet_create: the frame is addressed to device_addr.
sw_packet_create_to_device(device_addr, target_addr, apid, payload, payload_len, mem, buf_ok, b, buf_len, st) ==
  IF ~buf_ok
    THEN [ret |-> 0, buf |-> b, stats |-> st, kind |-> "invalid_arg"]
  ELSE
    LET config == [device_addr |-> device_addr, target_addr |-> device_addr,
                   protocol_id |-> 1, enable_crc |-> 1]
        pf0 == sw_packet_init(TRUE, [frame |-> UninitFrame], TRUE, config)
        pf1 == [pf0 EXCEPT !.packet.ph.apid = apid,
                           !.packet.payload = payload,
                           !.packet.payload_len = payload_len]
    IN sw_packet_encode(TRUE, pf1, mem, TRUE, b, buf_len, st)

\* sw_packet_create(device_addr, target_addr, apid, payload, payload_len, buf,
\* buf_len): st is g_sw_stats before the call; yields what sw_packet_encode
\* yields for the local context
sw_packet_create(device_addr, target_addr, apid, payload, payload_len, mem, buf_ok, b, buf_len, st) ==
  IF ~buf_ok
    THEN [ret |-> 0, buf |-> b, stats |-> st, kind |-> "invalid_arg"]
  ELSE
    LET config == [device_addr |-> device_addr, target_addr |-> target_addr,
                   protocol_id |-> 1, enable_crc |-> 1]
        pf0 == sw_packet_init(TRUE, [frame |-> UninitFrame], TRUE, config)
        pf1 == [pf0 EXCEPT !.packet.ph.apid = apid,
                           !.packet.payload = payload,
                           !.packet.payload_len = payload_len]
    IN sw_packet_encode(TRUE, pf1, mem, TRUE, b, buf_len, st)

\* sw_get_statistics(stats): out is *stats before the call, st g_sw_stats;
\* yields *stats after the call
sw_get_statistics(stats_ok, out, st) ==
  IF ~stats_ok THEN out ELSE st

\* Mutant of sw_reset_statistics: the byte counters are left as they are.
sw_reset_statistics_keep_bytes(st) ==
  [ZeroStats EXCEPT !.bytes_sent = st.bytes_sent,
                    !.bytes_received = st.bytes_received]

\* sw_reset_statistics(): st is g_sw_stats before the call; yields it after
sw_reset_statistics(st) == ZeroStats

(***************************************************************************)
(* SpecPacket: a caller prepares a context (sw_packet_init, then the       *)
(* application id and payload), encodes it onto the wire, or puts a raw    *)
(* frame or line noise on the wire, decodes the wire into the context and  *)
(* resets the statistics.                                                  *)
(***************************************************************************)
\* <<target_addr, apid>> of the contexts the caller prepares
PacketConfigs == {<<2, 34>>, <<66, 256>>}
\* the caller's payload arrays
PacketSrcs == {<<17>>, <<17, 34>>}
\* what the caller sets packet.payload / payload_len to: the whole array, an
\* empty payload, an absent payload with a length, a length beyond the frame
PacketShapes == {"full", "empty", "absent", "huge"}
\* the <<configuration, shape>> of the contexts: every configuration with the
\* whole payload, one configuration with each other shape
PacketSetups == (PacketConfigs \X {"full"}) \cup ({<<2, 34>>} \X PacketShapes)
\* room for the longest packet frame and one byte more
PktBufCap == 4 + SP_PRIMARY_HEADER_LEN + 2 + 1

\* <<absent argument, buf_len>> of the Encode calls: the whole buffer, or one
\* too small for any packet
EncodeCalls == ({"none", "pf", "buf"} \X {PktBufCap})
               \cup {<<"none", SP_PRIMARY_HEADER_LEN>>}
\* <<absent argument, buf_len>> of the Decode calls: the frame on the wire, or
\* its first three bytes
DecodeCalls == ({"none", "pf", "buf"} \X {wire_len}) \cup {<<"none", 3>>}

\* the arguments of the Create calls: two device addresses, two targets and
\* application ids, payload present or absent, buffer present or absent,
\* the whole buffer or one too small for any packet
CreateCalls ==
  LET call0 == [device_addr |-> 1, target_addr |-> 2, apid |-> 34,
                payload |-> TRUE, buf_ok |-> TRUE, buf_len |-> PktBufCap]
  IN {call0,
      [call0 EXCEPT !.device_addr = 9],
      [call0 EXCEPT !.target_addr = 66, !.apid = 256],
      [call0 EXCEPT !.payload = FALSE],
      [call0 EXCEPT !.buf_ok = FALSE],
      [call0 EXCEPT !.buf_len = SP_PRIMARY_HEADER_LEN]}

\* a sw_statistics_t of the caller that has not been written
UninitStats == [f \in DOMAIN ZeroStats |-> Fill]

ZeroTally == [enc_ok |-> 0, enc_bytes |-> 0, dec_ok |-> 0, dec_bytes |-> 0]

\* the context after sw_packet_init and the caller's assignments
Prepared(cfg, shape) ==
  LET c == sw_packet_init(TRUE, [frame |-> sw_frame_init, packet |-> sp_packet_init],
                          TRUE, [device_addr |-> 1, target_addr |-> cfg[1],
                                 protocol_id |-> 1, enable_crc |-> 1])
  IN [c EXCEPT !.packet.ph.apid = cfg[2],
               !.packet.payload = IF shape = "absent" THEN NULL ELSE PtrSrc,
               !.packet.payload_len =
                  CASE shape = "full" -> Len(src)
                    [] shape = "empty" -> 0
                    [] shape = "absent" -> 1
                    [] shape = "huge" -> SW_FRAME_MAX_PAYLOAD]

InitPacket ==
  /\ pc = "packet"
  /\ src \in PacketSrcs
  /\ \E cfg \in PacketConfigs : pf = Prepared(cfg, "full")
  /\ buf = [i \in 1..PktBufCap |-> Fill]
  /\ wire_len = 0
  /\ stats = ZeroStats
  /\ tally = ZeroTally
  /\ ret = 0
  /\ call = NoCall
  /\ frame = sw_frame_init
  /\ decoded = UninitFrame
  /\ IdleRouter
  /\ IdleLink

PacketInit ==
  /\ pc = "packet"
  /\ \E a \in PacketSetups : pf' = Prepared(a[1], a[2])
  /\ call' = [op |-> "packet_init"]
  /\ UNCHANGED <<thread, link, pc, src, frame, buf, wire_len, decoded, router, out_port, mapped,
                 stats, tally, ret>>

PacketEncode ==
  /\ pc = "packet"
  /\ tally.enc_ok + tally.dec_ok < MaxCalls
  /\ \E a \in EncodeCalls :
       LET missing == a[1]
           buf_len == a[2]
       IN
       \E r \in {sw_packet_encode(missing # "pf", pf, Mem, missing # "buf", buf,
                                   buf_len, stats)} :
       /\ buf' = r.buf
       /\ wire_len' = IF r.ret > 0 THEN r.ret ELSE wire_len
       /\ stats' = r.stats
       /\ ret' = r.ret
       /\ tally' = [tally EXCEPT !.enc_ok = @ + (IF r.ret > 0 THEN 1 ELSE 0),
                                 !.enc_bytes = @ + r.ret]
       /\ call' = [op |-> "packet_encode", kind |-> r.kind]
  /\ UNCHANGED <<thread, link, pc, src, frame, decoded, router, out_port, mapped, pf>>

\* a frame that carries no space packet arrives: sw_frame_encode of a raw
\* one-byte payload
RawFrame ==
  /\ pc = "packet"
  /\ LET f == [target_addr |-> 34, protocol_id |-> 1,
                 payload |-> <<"raw", 0>>, payload_len |-> 1]
     IN \E r \in {sw_frame_encode(TRUE, f, [raw |-> <<171>>], TRUE, buf,
                                  PktBufCap)} :
          /\ buf' = r.buf
          /\ wire_len' = r.ret
  /\ call' = [op |-> "raw_frame"]
  /\ UNCHANGED <<thread, link, pc, src, frame, decoded, router, out_port, mapped, pf, stats,
                 tally, ret>>

\* line noise: the first byte of the frame just put on the wire is inverted
CorruptWire ==
  /\ pc = "packet"
  /\ wire_len > 0
  /\ call.op \in {"packet_encode", "raw_frame"}
  /\ buf' = [buf EXCEPT ![1] = 255 - @]
  /\ call' = [op |-> "corrupt"]
  /\ UNCHANGED <<thread, link, pc, src, frame, wire_len, decoded, router, out_port, mapped, pf,
                 stats, tally, ret>>

PacketDecode ==
  /\ pc = "packet"
  /\ tally.enc_ok + tally.dec_ok < MaxCalls
  /\ \E a \in DecodeCalls :
       LET missing == a[1]
           buf_len == a[2]
       IN
       \E r \in {sw_packet_decode(missing # "pf", pf, missing # "buf", buf,
                                   buf_len, stats)} :
       /\ pf' = r.pf
       /\ stats' = r.stats
       /\ ret' = r.ret
       /\ tally' = [tally EXCEPT !.dec_ok = @ + r.ret,
                                 !.dec_bytes = @ + (IF r.ret = 1 THEN buf_len ELSE 0)]
       /\ call' = [op |-> "packet_decode", kind |-> r.kind, buf_len |-> buf_len,
                   after_encode |-> call.op = "packet_encode" /\ call.kind = "ok"]
  /\ UNCHANGED <<thread, link, pc, src, frame, buf, wire_len, decoded, router, out_port, mapped>>

ResetStatistics ==
  /\ pc = "packet"
  /\ stats' = sw_reset_statistics(stats)
  /\ tally' = ZeroTally
  /\ call' = [op |-> "reset_statistics", cleared |-> stats # ZeroStats]
  /\ UNCHANGED <<thread, link, pc, src, frame, buf, wire_len, decoded, router, out_port, mapped,
                 pf, ret>>

\* sw_packet_create with the caller's payload array, or with no payload
PacketCreate ==
  /\ pc = "packet"
  /\ tally.enc_ok + tally.dec_ok < MaxCalls
  /\ \E a \in CreateCalls :
       \E r \in {sw_packet_create(a.device_addr, a.target_addr, a.apid,
                                   IF a.payload THEN PtrSrc ELSE NULL,
                                   IF a.payload THEN Len(src) ELSE 1,
                                   Mem, a.buf_ok, buf, a.buf_len, stats)} :
       /\ buf' = r.buf
       /\ wire_len' = IF r.ret > 0 THEN r.ret ELSE wire_len
       /\ stats' = r.stats
       /\ ret' = r.ret
       /\ tally' = [tally EXCEPT !.enc_ok = @ + (IF r.ret > 0 THEN 1 ELSE 0),
                                 !.enc_bytes = @ + r.ret]
       /\ call' = [op |-> "packet_create", args |-> a, kind |-> r.kind]
  /\ UNCHANGED <<thread, link, pc, src, frame, decoded, router, out_port, mapped, pf>>

\* sw_get_statistics into a snapshot of the caller, or with no snapshot
GetStatistics ==
  /\ pc = "packet"
  /\ \E stats_ok \in BOOLEAN :
       call' = [op |-> "get_statistics", stats_ok |-> stats_ok,
                snapshot |-> sw_get_statistics(stats_ok, UninitStats, stats)]
  /\ UNCHANGED <<thread, link, pc, src, frame, buf, wire_len, decoded, router, out_port, mapped,
                 pf, stats, tally, ret>>

NextPacket ==
  \/ PacketInit \/ PacketEncode \/ RawFrame \/ CorruptWire \/ PacketDecode
  \/ ResetStatistics

SpecPacket == InitPacket /\ [][NextPacket]_vars

(***************************************************************************)
(* SpecPacketApi: every function of the packet layer, on one payload       *)
(* array: sw_packet_init, sw_packet_encode, sw_packet_decode (of the wire  *)
(* as encoded, with line noise, or cut short), sw_packet_create,           *)
(* sw_get_statistics and sw_reset_statistics.                              *)
(***************************************************************************)
InitPacketApi ==
  /\ InitPacket
  /\ src = <<17, 34>>

NextPacketApi ==
  \/ PacketInit \/ PacketEncode \/ CorruptWire \/ PacketDecode
  \/ ResetStatistics \/ PacketCreate \/ GetStatistics

SpecPacketApi == InitPacketApi /\ [][NextPacketApi]_vars

(***************************************************************************)
(* SpecThreads: two execution contexts call sw_packet_encode and           *)
(* sw_packet_decode, each on its own context and buffer, with no           *)
(* synchronisation.  The counters of g_sw_stats are plain objects, so each *)
(* update is a load and a store that the other context may come between.   *)
(* pf, buf, wire_len and ret are per context here.                         *)
(***************************************************************************)
Threads == {1, 2}

\* a context that is in no call
IdleThread == [at |-> "idle", field |-> "none", reg |-> 0, amount |-> 0]

\* Mutant of counter_store: the value loaded is stored back as it is.
counter_store_stale(st, field, reg, amount) ==
  [st EXCEPT ![field] = reg]

\* counter += amount, the store half: reg is the value loaded before
counter_store(st, field, reg, amount) ==
  [st EXCEPT ![field] = reg + amount]

ZeroRaceTally ==
  [enc_ok |-> 0, enc_bytes |-> 0, dec_ok |-> 0, dec_bytes |-> 0, begun |-> 0,
   overlap |-> FALSE]

\* another context is between the first load and the last store of its call
Overlaps(t) == \E u \in Threads \ {t} : thread[u].at # "idle"

InitThreads ==
  /\ pc = "threads"
  /\ src = <<17, 34>>
  /\ pf = [t \in Threads |-> Prepared(IF t = 1 THEN <<2, 34>> ELSE <<66, 256>>,
                                       "full")]
  /\ buf = [t \in Threads |-> [i \in 1..PktBufCap |-> Fill]]
  /\ wire_len = [t \in Threads |-> 0]
  /\ ret = [t \in Threads |-> 0]
  /\ thread = [t \in Threads |-> IdleThread]
  /\ stats = ZeroStats
  /\ tally = ZeroRaceTally
  /\ call = NoCall
  /\ link = UninitLink
  /\ frame = sw_frame_init
  /\ decoded = UninitFrame
  /\ IdleRouter

\* sw_packet_encode up to the call of sw_frame_encode (lines 38..58)
ThreadEncode(t) ==
  /\ pc = "threads"
  /\ thread[t].at = "idle"
  /\ tally.begun < MaxThreadCalls
  /\ \E r \in {sw_packet_encode(TRUE, pf[t], [src |-> src, buf |-> buf[t]], TRUE,
                                  buf[t], PktBufCap, stats)} :
       /\ buf' = [buf EXCEPT ![t] = r.buf]
       /\ wire_len' = IF r.ret > 0 THEN [wire_len EXCEPT ![t] = r.ret]
                      ELSE wire_len
       /\ thread' = [thread EXCEPT ![t] =
                       IF r.ret > 0
                         THEN [at |-> "load", field |-> "packets_sent",
                               reg |-> 0, amount |-> r.ret]
                         ELSE IdleThread]
       /\ ret' = IF r.ret > 0 THEN ret ELSE [ret EXCEPT ![t] = 0]
       /\ tally' = [tally EXCEPT !.begun = @ + 1,
                                 !.overlap = @ \/ (r.ret > 0 /\ Overlaps(t))]
       /\ call' = [op |-> "encode", thread |-> t]
  /\ UNCHANGED <<src, pc, frame, decoded, router, out_port, mapped, pf, stats,
                 link>>

\* sw_packet_decode up to the return of sp_packet_parse (lines 71..84)
ThreadDecode(t) ==
  /\ pc = "threads"
  /\ thread[t].at = "idle"
  /\ tally.begun < MaxThreadCalls
  /\ \E r \in {sw_packet_decode(TRUE, pf[t], TRUE, buf[t], wire_len[t], stats)} :
       /\ pf' = [pf EXCEPT ![t] = r.pf]
       /\ thread' = [thread EXCEPT ![t] =
                       IF r.ret = 1
                         THEN [at |-> "load", field |-> "packets_received",
                               reg |-> 0, amount |-> wire_len[t]]
                         ELSE IdleThread]
       /\ ret' = IF r.ret = 1 THEN ret ELSE [ret EXCEPT ![t] = 0]
       /\ tally' = [tally EXCEPT !.begun = @ + 1,
                                 !.overlap = @ \/ (r.ret = 1 /\ Overlaps(t))]
       /\ call' = [op |-> "decode", thread |-> t]
  /\ UNCHANGED <<src, pc, frame, buf, wire_len, decoded, router, out_port, mapped,
                 stats, link>>

\* the load half of a counter update
ThreadLoad(t) ==
  /\ pc = "threads"
  /\ thread[t].at = "load"
  /\ thread' = [thread EXCEPT ![t].at = "store",
                              ![t].reg = stats[thread[t].field]]
  /\ call' = [op |-> "load", thread |-> t]
  /\ UNCHANGED <<src, pc, frame, buf, wire_len, decoded, router, out_port, mapped,
                 pf, stats, tally, link, ret>>

\* the store half of a counter update; after the packet counter comes the byte
\* counter, after the byte counter the return
ThreadStore(t) ==
  /\ pc = "threads"
  /\ thread[t].at = "store"
  /\ LET th == thread[t]
         packets == th.field \in {"packets_sent", "packets_received"}
         sent == th.field \in {"packets_sent", "bytes_sent"}
     IN
     /\ stats' = counter_store(stats, th.field, th.reg,
                               IF packets THEN 1 ELSE th.amount)
     /\ thread' = [thread EXCEPT ![t] =
                     IF packets
                       THEN [th EXCEPT !.at = "load", !.reg = 0,
                                       !.field = IF sent THEN "bytes_sent"
                                                 ELSE "bytes_received"]
                       ELSE IdleThread]
     /\ ret' = IF packets THEN ret
               ELSE [ret EXCEPT ![t] = IF sent THEN th.amount ELSE 1]
     /\ tally' = IF packets THEN tally
                 ELSE IF sent
                   THEN [tally EXCEPT !.enc_ok = @ + 1, !.enc_bytes = @ + th.amount]
                   ELSE [tally EXCEPT !.dec_ok = @ + 1, !.dec_bytes = @ + th.amount]
  /\ call' = [op |-> "store", thread |-> t]
  /\ UNCHANGED <<src, pc, frame, buf, wire_len, decoded, router, out_port, mapped,
                 pf, link>>

NextThreads ==
  \E t \in Threads :
    ThreadEncode(t) \/ ThreadDecode(t) \/ ThreadLoad(t) \/ ThreadStore(t)

SpecThreads == InitThreads /\ [][NextThreads]_vars

(***************************************************************************)
(* SpecCrc: sw_crc16 applied to sample inputs                              *)
(***************************************************************************)
\* ASCII "123456789"
Digits == <<49, 50, 51, 52, 53, 54, 55, 56, 57>>
\* every prefix of the digits, every single byte, and some pairs
CrcInputs == {SubSeq(Digits, 1, n) : n \in 0..Len(Digits)}
             \cup {<<x>> : x \in Byte}
             \cup {<<x, y>> : x \in {0, 255}, y \in {1, 128}}

InitCrc ==
  /\ pc = "crc"
  /\ src \in CrcInputs
  /\ ret = 0
  /\ call = NoCall
  /\ buf = <<>>
  /\ wire_len = 0
  /\ frame = sw_frame_init
  /\ decoded = UninitFrame
  /\ IdleRouter
  /\ IdlePacket
  /\ IdleLink

Crc16 ==
  /\ pc = "crc"
  /\ \E data_ok \in BOOLEAN :
       /\ ret' = sw_crc16(data_ok, src)
       /\ call' = [op |-> "crc16", data_ok |-> data_ok]
  /\ UNCHANGED <<thread, link, pc, src, frame, buf, wire_len, decoded, router, out_port, mapped,
                 pf, stats, tally>>

NextCrc == Crc16

SpecCrc == InitCrc /\ [][NextCrc]_vars

(***************************************************************************)
(* SpecChar: a caller encodes a value into its byte encoded, keeps the     *)
(* parity returned, and decodes encoded with that parity or with the       *)
(* parity bit flipped into its byte decoded.  buf holds the caller's three *)
(* bytes <<encoded, parity, decoded>>, src the value.                      *)
(***************************************************************************)
InitChar ==
  /\ pc = "char"
  /\ \E v \in Byte : src = <<v>>
  /\ buf = <<Fill, Fill, Fill>>
  /\ ret = 0
  /\ call = NoCall
  /\ wire_len = 0
  /\ frame = sw_frame_init
  /\ decoded = UninitFrame
  /\ IdleRouter
  /\ IdlePacket
  /\ IdleLink

EncodeChar ==
  /\ pc \in {"char", "encoded_char"}
  /\ \E byte_ok \in BOOLEAN :
       \E r \in {sw_encode_char(src[1], byte_ok, buf[1])} :
       /\ buf' = IF byte_ok THEN [buf EXCEPT ![1] = r.byte, ![2] = r.ret] ELSE buf
       /\ ret' = r.ret
       /\ pc' = IF byte_ok THEN "encoded_char" ELSE pc
       /\ call' = [op |-> "encode_char", byte_ok |-> byte_ok]
  /\ UNCHANGED <<thread, link, src, frame, wire_len, decoded, router, out_port, mapped, pf,
                 stats, tally>>

DecodeChar ==
  /\ pc = "encoded_char"
  /\ \E flip \in BOOLEAN, data_ok \in BOOLEAN :
       \E r \in {sw_decode_char(buf[1], IF flip THEN 1 - buf[2] ELSE buf[2],
                                 data_ok, buf[3])} :
       /\ buf' = [buf EXCEPT ![3] = r.data]
       /\ ret' = r.ret
       /\ call' = [op |-> "decode_char", flip |-> flip, data_ok |-> data_ok]
  /\ UNCHANGED <<thread, link, pc, src, frame, wire_len, decoded, router, out_port, mapped, pf,
                 stats, tally>>

NextChar == EncodeChar \/ DecodeChar

SpecChar == InitChar /\ [][NextChar]_vars

(***************************************************************************)
(* Properties                                                              *)
(***************************************************************************)

\* C1: RouteFrame fails for every target other than device_addr for which no
\* AddRoute call was accepted since Init, whatever the link states.
UnconfiguredTargetMisses ==
  (/\ call.op = "route_frame"
   /\ call.target_addr # router.device_addr
   /\ (call.target_addr >= SW_MAX_PORTS \/ mapped[call.target_addr] = {}))
  => ret = 0

\* C2: decoding exactly the bytes sw_frame_encode returned for a frame whose
\* payload is present succeeds and reproduces target_addr, protocol_id,
\* payload_len and every payload byte.
FrameRoundTrip ==
  (/\ pc = "encoded"
   /\ call.op = "frame_decode"
   /\ call.frame_ok /\ call.buf_ok
   /\ call.buf_len = wire_len
   /\ frame.payload # NULL)
  => /\ ret = 1
     /\ decoded.target_addr = frame.target_addr
     /\ decoded.protocol_id = frame.protocol_id
     /\ decoded.payload_len = frame.payload_len
     /\ Deref(Mem, decoded.payload, decoded.payload_len)
          = Deref(Mem, frame.payload, frame.payload_len)

FrameRoundTripWitness ==
  /\ pc = "encoded"
  /\ call.op = "frame_decode"
  /\ call.frame_ok /\ call.buf_ok
  /\ call.buf_len = wire_len
  /\ frame.payload # NULL
  /\ frame.payload_len >= 2
  /\ ret = 1
  /\ Deref(Mem, decoded.payload, decoded.payload_len) = <<255, 0>>

\* C3: after any single byte of an encoded frame is changed to any other
\* value, sw_frame_decode of the same length fails with a checksum mismatch.
CorruptionDetected ==
  pc = "checked" => (ret = 0 /\ call.kind = "crc_mismatch")

\* a changed low CRC byte of a frame with payload was decoded and refused
CorruptionDetectedWitness ==
  /\ pc = "checked"
  /\ call.kind = "crc_mismatch"
  /\ frame.payload_len >= 1
  /\ wire_len = sw_frame_size(TRUE, frame)
  /\ buf[wire_len] # sw_frame_encode(TRUE, frame, Mem, TRUE, buf, wire_len).buf[wire_len]

\* C4: the value a call returns tells the failure kinds apart: for
\* sw_frame_decode a checksum mismatch from an invalid argument and from a
\* too-short buffer, for sw_router_route_frame a routing miss from an invalid
\* argument and from local delivery. Stated on two calls in a row.
FailureKindsDistinguishable ==
  [][/\ (/\ call.op = "frame_decode" /\ call'.op = "frame_decode"
         /\ call.kind = "crc_mismatch"
         /\ call'.kind \in {"invalid_arg", "too_short"})
        => ret' # ret
     /\ (/\ call.op = "route_frame" /\ call'.op = "route_frame"
         /\ call.kind \in {"bad_dest", "bad_port", "link_down"}
         /\ call'.kind \in {"invalid_arg", "local"})
        => ret' # ret]_vars

\* C5: when target_addr is not device_addr, is below 8, was last mapped to
\* port p by an accepted AddRoute and links[p] is Connected, RouteFrame
\* succeeds, writes p to the output port and adds exactly 1 to
\* links[p].tx_packets.
SuccessfulRouting ==
  [][\A p \in 0..SW_MAX_PORTS - 1 :
       (/\ call'.op = "route_frame"
        /\ call'.missing = "none"
        /\ call'.target_addr # router.device_addr
        /\ call'.target_addr < SW_MAX_PORTS
        /\ mapped[call'.target_addr] = {p}
        /\ router.links[p].state = SW_LINK_CONNECTED)
       => /\ ret' = 1
          /\ out_port' = p
          /\ router'.links[p].tx_packets = router.links[p].tx_packets + 1]_vars

SuccessfulRoutingWitness ==
  /\ call.op = "route_frame"
  /\ call.kind = "routed"
  /\ mapped[call.target_addr] = {1}
  /\ out_port = 1
  /\ router.links[1].tx_packets = 1

\* C6: whenever RouteFrame reports success the returned port is below
\* num_ports <= 8, target_addr is below 8 and is not device_addr, and the
\* link of that port was Connected when the call was made; it fails whenever
\* the link of the mapped port is in any other state.
RoutingSafety ==
  [][call'.op = "route_frame" =>
       /\ ret' = 1 =>
            /\ out_port' < router.num_ports
            /\ router.num_ports <= SW_MAX_PORTS
            /\ call'.target_addr < SW_MAX_PORTS
            /\ call'.target_addr # router.device_addr
            /\ router.links[out_port'].state = SW_LINK_CONNECTED
       /\ (/\ call'.target_addr < SW_MAX_PORTS
           /\ router.links[router.routes[call'.target_addr].output_port].state
                # SW_LINK_CONNECTED)
          => ret' = 0]_vars

\* a frame was refused because the link of its mapped port is in state Error,
\* on a router that has routed a frame before
RoutingSafetyWitness ==
  /\ call.op = "route_frame"
  /\ call.kind = "link_down"
  /\ mapped[call.target_addr] = {0}
  /\ router.links[0].state = SW_LINK_ERROR
  /\ router.links[0].tx_packets = 1

\* C7: when target_addr is device_addr RouteFrame returns "not routed"
\* whatever the routing table and the link states, changes no router field
\* and does not write the output port.
LocalDeliveryFirst ==
  [][(call'.op = "route_frame" /\ call'.target_addr = router.device_addr)
       => (ret' = 0 /\ router' = router /\ out_port' = out_port)]_vars

\* local delivery although the address has a route whose link is Connected
LocalDeliveryFirstWitness ==
  /\ call.op = "route_frame"
  /\ call.kind = "local"
  /\ call.target_addr = router.device_addr
  /\ mapped[call.target_addr] = {0}
  /\ router.links[0].state = SW_LINK_CONNECTED

\* C8: counted from ResetStatistics, packets_sent is the number of Encode
\* calls that succeeded, bytes_sent the sum of the lengths they returned,
\* packets_received the number of Decode calls that succeeded and
\* bytes_received the sum of the whole buffer lengths of those calls.
StatisticsAccounting ==
  pc = "packet" =>
    /\ stats.packets_sent = tally.enc_ok
    /\ stats.bytes_sent = tally.enc_bytes
    /\ stats.packets_received = tally.dec_ok
    /\ stats.bytes_received = tally.dec_bytes

\* an Encode and a Decode have succeeded, and the last call failed
StatisticsAccountingWitness ==
  /\ pc = "packet"
  /\ tally.enc_ok = 1
  /\ tally.dec_ok = 1
  /\ tally.dec_bytes = 4 + SP_PRIMARY_HEADER_LEN + Len(src)
  /\ call.op = "packet_decode"
  /\ ret = 1

\* C10: when sw_packet_decode fails, the caller's context (frame and packet
\* fields) is the same as before the call.
FailedDecodeKeepsContext ==
  [][(call'.op = "packet_decode" /\ ret' = 0) => pf' = pf]_vars

\* the bit-serial definition of CRC-16-CCITT: polynomial 0x1021, register
\* starting at init, no reflection, no final XOR
RECURSIVE CrcBitSerial(_, _, _)
\* the register after the first n bytes of data
CrcBitSerial(init, data, n) ==
  IF n = 0 THEN init
  ELSE CHOOSE r \in {CrcShift(Xor16(prev, data[n] * 256), 8) :
                       prev \in {CrcBitSerial(init, data, n - 1)}} : TRUE

FailedFrameDecodeWritesNothing ==
  [][(call'.op = "frame_decode" /\ ret' = 0) => decoded' = decoded]_vars

\* C12: sw_frame_size(frame) is 4 + payload_len for every frame, and every
\* successful sw_frame_encode returns exactly sw_frame_size(frame), also for a
\* frame whose payload_len is non-zero while its payload is absent.
EncodedLengthIsFrameSize ==
  pc \in {"built", "encoded"} =>
    /\ sw_frame_size(TRUE, frame) = 4 + frame.payload_len
    /\ (call.op = "frame_encode" /\ ret > 0) => ret = sw_frame_size(TRUE, frame)

\* C13: on success sw_frame_encode writes byte 0 = target_addr, byte 1 =
\* protocol_id, the N = payload_len payload bytes in order, and in the final
\* two of the N + 4 bytes the CRC16 of all preceding bytes, high byte first;
\* it writes nothing past those N + 4 bytes.
WireFormat ==
  [][(call'.op = "frame_encode" /\ ret' > 0) =>
       LET N == frame.payload_len
           crc == sw_crc16(TRUE, SubSeq(buf', 1, N + 2))
       IN /\ buf'[1] = frame.target_addr
          /\ buf'[2] = frame.protocol_id
          /\ frame.payload # NULL => SubSeq(buf', 3, N + 2) = SubSeq(src, 1, N)
          /\ buf'[N + 3] = crc \div 256
          /\ buf'[N + 4] = crc % 256
          /\ \A i \in N + 5..Len(buf) : buf'[i] = buf[i]]_vars

\* C14: sw_frame_encode returns 0 and has written no byte of the buffer
\* whenever the frame or the buffer is absent or buf_len < Size(frame), and
\* succeeds whenever both are present and buf_len >= Size(frame).
EncodeRefusalWritesNothing ==
  [][call'.op = "frame_encode" =>
       IF ~call'.frame_ok \/ ~call'.buf_ok
            \/ call'.buf_len < 4 + frame.payload_len
         THEN ret' = 0 /\ buf' = buf
         ELSE ret' > 0]_vars

\* a frame with payload was refused for a buffer that holds the header and
\* the CRC but not the payload
EncodeRefusalWritesNothingWitness ==
  /\ call.op = "frame_encode"
  /\ call.kind = "insufficient_buffer"
  /\ call.buf_len >= 4
  /\ frame.payload_len > 0
  /\ ret = 0
  /\ \A i \in 1..BufCap : buf[i] = Fill

\* C15: whatever the router held before, after sw_router_init num_ports is
\* min(requested, 8), device_addr is as given, every link below num_ports has
\* port_id = its index and state Uninitialized, all tx/rx/error counters are
\* 0, all 16 channels are inactive with channel_id = index and 64 credits,
\* and no route, count or open channel from before the call is left.
RouterInitDeterminesState ==
  [][call'.op = "router_init" =>
       /\ router'.num_ports = (IF call'.num_ports < SW_MAX_PORTS
                                 THEN call'.num_ports ELSE SW_MAX_PORTS)
       /\ router'.device_addr = call'.device_addr
       /\ \A i \in 0..SW_MAX_PORTS - 1 :
            /\ i < router'.num_ports =>
                 /\ router'.links[i].port_id = i
                 /\ router'.links[i].state = SW_LINK_UNINITIALIZED
            /\ router'.links[i].tx_packets = 0
            /\ router'.links[i].rx_packets = 0
            /\ router'.links[i].errors = 0
            /\ router'.routes[i] = [dest_addr |-> 0, output_port |-> 0]
       /\ \A c \in 0..SW_MAX_VIRTUAL_CHANNELS - 1 :
            router'.channels[c] =
              [channel_id |-> c, active |-> 0, fct_credits |-> 64]]_vars

\* Init with more ports than the capacity on a router that had routed a
\* frame, had a route and had an open channel
RouterInitDeterminesStateWitness ==
  /\ call.op = "router_init"
  /\ call.dirty
  /\ call.num_ports > SW_MAX_PORTS
  /\ router.num_ports = SW_MAX_PORTS

\* C16: a rejected AddRoute (dest_addr >= 8 or output_port >= num_ports)
\* leaves the whole router unchanged; an accepted one changes only
\* routes[dest_addr], which then maps to output_port.
AddRouteFrame ==
  [][call'.op = "add_route" =>
       IF call'.dest_addr >= SW_MAX_PORTS
            \/ call'.output_port >= router.num_ports
         THEN router' = router
         ELSE /\ router'.routes[call'.dest_addr].output_port = call'.output_port
              /\ router' = [router EXCEPT
                              !.routes[call'.dest_addr] =
                                 router'.routes[call'.dest_addr]]]_vars

\* a rejected AddRoute for a destination that keeps its earlier port 1
AddRouteFrameWitness ==
  /\ call.op = "add_route"
  /\ call.dest_addr < SW_MAX_PORTS
  /\ call.output_port >= router.num_ports
  /\ mapped[call.dest_addr] = {1}
  /\ router.routes[call.dest_addr].output_port = 1

\* C17: OpenChannel succeeds exactly when channel_id < 16; on success that
\* channel becomes active with its credits and every other channel unchanged,
\* on failure nothing changes; an active channel stays active through every
\* AddRoute, OpenChannel and RouteFrame call.
ChannelStaysOpen ==
  [][/\ call'.op = "open_channel" =>
          /\ ret' = 1 <=> call'.channel_id < SW_MAX_VIRTUAL_CHANNELS
          /\ ret' \in {0, 1}
          /\ ret' = 0 => router' = router
          /\ ret' = 1 =>
               /\ router'.channels[call'.channel_id].active = 1
               /\ router' = [router EXCEPT
                               !.channels[call'.channel_id].active = 1]
     /\ call'.op \in {"add_route", "open_channel", "route_frame"} =>
          \A c \in 0..SW_MAX_VIRTUAL_CHANNELS - 1 :
            router.channels[c].active = 1 =>
              router'.channels[c] = router.channels[c]]_vars

\* a channel opened earlier is still active after a frame was routed
ChannelStaysOpenWitness ==
  /\ call.op = "route_frame"
  /\ call.kind = "routed"
  /\ \E c \in 0..SW_MAX_VIRTUAL_CHANNELS - 1 :
       /\ router.channels[c].active = 1
       /\ router.channels[c].fct_credits = 64

\* the seven counters of a sw_statistics_t are all 0
AllCountersZero(st) ==
  /\ st.packets_sent = 0
  /\ st.packets_received = 0
  /\ st.crc_errors = 0
  /\ st.frame_errors = 0
  /\ st.link_errors = 0
  /\ st.bytes_sent = 0
  /\ st.bytes_received = 0

\* C18: after sw_reset_statistics all seven counters are 0 and a
\* GetStatistics snapshot taken next reads 0 in all seven; GetStatistics
\* copies the counters and changes none of them.
ResetZeroesEveryCounter ==
  [][/\ call'.op = "reset_statistics" => AllCountersZero(stats')
     /\ call'.op = "get_statistics" =>
          /\ stats' = stats
          /\ call'.stats_ok => call'.snapshot = stats
     /\ (/\ call.op = "reset_statistics"
         /\ call'.op = "get_statistics"
         /\ call'.stats_ok)
        => AllCountersZero(call'.snapshot)]_vars

\* counters that packets had been sent and received on were reset
ResetZeroesEveryCounterWitness ==
  /\ call.op = "reset_statistics"
  /\ call.cleared
  /\ tally = ZeroTally
  /\ pf.packet.payload_len = Len(src)
  /\ pf.packet.payload = <<"buf", 2 + SP_PRIMARY_HEADER_LEN>>
  /\ AllCountersZero(stats)

\* C19: in every state reachable by packet Init, Encode, Decode, Create,
\* GetStatistics and ResetStatistics calls, failed Decode calls included,
\* crc_errors, frame_errors and link_errors are 0.
ReservedCountersStayZero ==
  pc = "packet" =>
    /\ stats.crc_errors = 0
    /\ stats.frame_errors = 0
    /\ stats.link_errors = 0

\* a Decode failed on a CRC mismatch after a packet had been sent
ReservedCountersStayZeroWitness ==
  /\ pc = "packet"
  /\ call.op = "packet_decode"
  /\ call.kind = "crc_mismatch"
  /\ stats.packets_sent = 1
  /\ stats.crc_errors = 0

\* C20: sw_packet_create returns the same length, writes the same bytes and
\* updates the statistics the same way as sw_packet_init with {target_addr,
\* protocol_id = 1}, then setting the application id and payload, then
\* sw_packet_encode; on success byte 0 is target_addr and byte 1 is 1, and
\* the result is that of any other device_addr.
CreateIsInitSetEncode ==
  [][call'.op = "packet_create" =>
       LET a == call'.args
           ctx == sw_packet_init(TRUE, pf, TRUE,
                                 [device_addr |-> 0,
                                  target_addr |-> a.target_addr,
                                  protocol_id |-> 1, enable_crc |-> 1])
           set == [ctx EXCEPT
                     !.packet.ph.apid = a.apid,
                     !.packet.payload = IF a.payload THEN PtrSrc ELSE NULL,
                     !.packet.payload_len = IF a.payload THEN Len(src) ELSE 1]
       IN \E e \in {sw_packet_encode(TRUE, set, Mem, a.buf_ok, buf, a.buf_len,
                                     stats)} :
            /\ ret' = e.ret
            /\ buf' = e.buf
            /\ stats' = e.stats
            /\ ret' > 0 => (buf'[1] = a.target_addr /\ buf'[2] = 1)]_vars

\* a packet created by device 9 for target 2 is on the wire and counted
CreateIsInitSetEncodeWitness ==
  /\ call.op = "packet_create"
  /\ call.args.device_addr = 9
  /\ ret = 4 + SP_PRIMARY_HEADER_LEN + Len(src)
  /\ buf[1] = 2
  /\ stats.packets_sent = 1

\* C21: when sw_packet_encode has succeeded on a context prepared with
\* sw_packet_init, an application id and a payload, sw_packet_decode of exactly
\* the returned bytes returns 1 and leaves in the context the same application
\* id and payload length in the packet and the configured target_addr and
\* protocol_id in the frame.
PacketRoundTrip ==
  [][\A cfg \in PacketConfigs :
       (/\ pf = Prepared(cfg, "full")
        /\ call.op = "packet_encode" /\ call.kind = "ok"
        /\ call'.op = "packet_decode" /\ call'.kind # "invalid_arg"
        /\ call'.buf_len = wire_len)
       => (/\ ret' = 1
           /\ pf'.packet.ph.apid = cfg[2]
           /\ pf'.packet.payload_len = Len(src)
           /\ pf'.frame.target_addr = cfg[1]
           /\ pf'.frame.protocol_id = 1)]_vars

PacketRoundTripWitness ==
  /\ call.op = "packet_decode" /\ call.after_encode /\ call.kind = "ok"
  /\ call.buf_len = wire_len
  /\ pf.packet.ph.apid = 256 /\ pf.packet.payload_len = 2
  /\ pf.frame.target_addr = 66

\* C22: sw_packet_encode returns 0 whenever sp_packet_serialize_size reports 0
\* or more than SW_FRAME_MAX_PAYLOAD (with both arguments present it returns at
\* the size check); whenever it succeeds, the frame it wrote carries exactly
\* the bytes the codec serialized, untruncated, and the return value is their
\* number plus 4.
EncodeSizeCheck ==
  [][call'.op = "packet_encode" =>
       \E size \in {sp_packet_serialize_size(pf.packet)} :
       \E pkt \in {IF size = 0 \/ size > SW_FRAME_MAX_PAYLOAD THEN <<>>
                    ELSE sp_packet_serialize(pf.packet, Mem, SW_FRAME_MAX_PAYLOAD)} :
         /\ (size = 0 \/ size > SW_FRAME_MAX_PAYLOAD)
              => /\ ret' = 0
                 /\ call'.kind \in {"invalid_arg", "encoding_overflow"}
         /\ ret' > 0
              => /\ ret' = Len(pkt) + 4
                 /\ Len(pkt) = size
                 /\ sw_frame_size(TRUE, [payload_len |-> Len(pkt)]) = ret'
                 /\ SubSeq(buf', 3, ret' - 2) = pkt]_vars

EncodeSizeCheckWitness ==
  /\ call.op = "packet_encode" /\ call.kind = "encoding_overflow"
  /\ sp_packet_serialize_size(pf.packet) > SW_FRAME_MAX_PAYLOAD

\* the number of one bits of a byte
OneBits(v) == Cardinality({i \in 0..7 : (v \div 2^i) % 2 = 1})

\* C23: for every data value v in 4..255, sw_encode_char stores v unchanged
\* and returns the bit that makes the number of ones even, and sw_decode_char
\* of that byte with that parity returns SW_CHAR_OK with the data equal to v.
CharRoundTrip ==
  [][src[1] >= 4 =>
       /\ (call'.op = "encode_char" /\ call'.byte_ok)
            => /\ buf'[1] = src[1]
               /\ ret' \in {0, 1}
               /\ (OneBits(src[1]) + ret') % 2 = 0
       /\ (call'.op = "decode_char" /\ ~call'.flip /\ call'.data_ok)
            => /\ ret' = SW_CHAR_OK
               /\ buf'[3] = src[1]]_vars

CharRoundTripWitness ==
  /\ call.op = "decode_char" /\ ~call.flip /\ call.data_ok
  /\ src[1] = 254 /\ buf = <<254, 1, 254>> /\ ret = SW_CHAR_OK

\* C24: for every value v in 0..255, sw_decode_char of the encoded byte with
\* the parity bit flipped returns SW_CHAR_PARITY_ERROR, also for the control
\* markers 0..3; with the parity as returned, the values 0, 1, 2, 3 give
\* SW_CHAR_ESCAPE, SW_CHAR_FCT, SW_CHAR_EOP, SW_CHAR_EEP and the data output
\* is not written.
ParityBeforeClassification ==
  [][(call'.op = "decode_char" /\ call'.data_ok) =>
       /\ call'.flip => ret' = SW_CHAR_PARITY_ERROR
       /\ (~call'.flip /\ src[1] <= 3)
            => /\ ret' = src[1] + 1
               /\ ret' \in {SW_CHAR_ESCAPE, SW_CHAR_FCT, SW_CHAR_EOP, SW_CHAR_EEP}
               /\ buf'[3] = buf[3]]_vars

ParityBeforeClassificationWitness ==
  /\ call.op = "decode_char" /\ call.flip /\ call.data_ok
  /\ src[1] = SPACEWIRE_EOP /\ buf[1] = SPACEWIRE_EOP
  /\ ret = SW_CHAR_PARITY_ERROR

\* C25: sw_link_init stores the configuration, the state Uninitialized,
\* rx_credits = rx_credit_max and tx_credits = 0; from every one of the five
\* states sw_link_set_state moves the link to every one of the five states,
\* changing neither the credits nor the configuration; sw_link_get_state
\* returns the state stored last.
NoTransitionTable ==
  [][/\ (call'.op = "link_init" /\ call'.link_ok /\ call'.config_ok)
          => link' = [config |-> call'.config, state |-> SW_LINK_UNINITIALIZED,
                      rx_credits |-> call'.config.rx_credit_max,
                      tx_credits |-> 0]
     /\ (call'.op = "link_set_state" /\ call'.link_ok)
          => /\ link.state \in LinkStates
             /\ link'.state = call'.state
             /\ link'.config = link.config
             /\ link'.rx_credits = link.rx_credits
             /\ link'.tx_credits = link.tx_credits
     /\ (call'.op = "link_get_state" /\ call'.link_ok)
          => ret' = tally[1]]_vars

NoTransitionTableWitness ==
  /\ call.op = "link_set_state" /\ call.link_ok
  /\ call.from = SW_LINK_CONNECTED /\ call.state = SW_LINK_UNINITIALIZED
  /\ link.state = SW_LINK_UNINITIALIZED /\ link.rx_credits = 12

\* C26: the counter updates of concurrent sw_packet_encode / sw_packet_decode
\* calls are separate loads and stores, so when calls overlapped a counter can
\* end below what the successful calls account for (never above); when no
\* call began while another was updating the counters, every counter is
\* exactly what the successful calls account for.
StatisticsRace ==
  (\A t \in Threads : thread[t].at = "idle")
    => /\ stats.packets_sent <= tally.enc_ok
       /\ stats.bytes_sent <= tally.enc_bytes
       /\ stats.packets_received <= tally.dec_ok
       /\ stats.bytes_received <= tally.dec_bytes
       /\ ~tally.overlap
            => /\ stats.packets_sent = tally.enc_ok
               /\ stats.bytes_sent = tally.enc_bytes
               /\ stats.packets_received = tally.dec_ok
               /\ stats.bytes_received = tally.dec_bytes

\* two overlapping successful Encode calls, one increment lost
StatisticsRaceWitness ==
  /\ \A t \in Threads : thread[t].at = "idle"
  /\ tally.overlap
  /\ tally.enc_ok = 2
  /\ stats.packets_sent = 1
  /\ stats.bytes_sent < tally.enc_bytes

\* C27: sw_frame_decode of a whole buffer of length len >= 4 that ends with
\* the CRC of the bytes before it returns 1 with the payload at byte 2 and
\* payload_len = len - 4, also when len - 4 is 65536 or more.
DecodedViewSpansBuffer ==
  (call.op = "wire_decode" /\ call.missing = "none" /\ call.buf_len = wire_len)
    => /\ ret = 1
       /\ decoded.payload = <<"buf", 2>>
       /\ decoded.payload_len = wire_len - 4

\* C28: whenever sw_packet_encode or sw_packet_decode returns 0, whatever the
\* reason, all seven counters of g_sw_stats have the values they had before
\* the call.
FailedCallsKeepStatistics ==
  [][(call'.op \in {"packet_encode", "packet_decode"} /\ ret' = 0)
       => stats' = stats]_vars

FailedCallsKeepStatisticsWitness ==
  /\ call.op = "packet_encode" /\ call.kind = "insufficient_buffer" /\ ret = 0
  /\ stats.packets_sent = 1 /\ stats.bytes_sent = 12
  /\ stats.packets_received = 0

\* C29: a sw_router_route_frame call that returns 0 changes no field of the
\* router and does not write *output_port; a call that returns 1 adds one to
\* links[port].tx_packets of the port it reports and changes nothing else;
\* so every link's tx_packets is the number of calls that returned 1 with
\* that port since Init.
RouteFrameConfined ==
  [][/\ (call'.op = "route_frame" /\ ret' = 0)
          => (router' = router /\ out_port' = out_port)
     /\ (call'.op = "route_frame" /\ ret' = 1)
          => /\ out_port' \in 0..SW_MAX_PORTS - 1
             /\ router'.links[out_port'].tx_packets
                  = router.links[out_port'].tx_packets + 1
             /\ router' = [router EXCEPT !.links[out_port'].tx_packets =
                                            router'.links[out_port'].tx_packets]
     /\ \A p \in 0..SW_MAX_PORTS - 1 :
          router'.links[p].tx_packets = tally'[p]]_vars

RouteFrameConfinedWitness ==
  /\ call.op = "route_frame" /\ call.kind = "link_down" /\ ret = 0
  /\ router.links[1].tx_packets = 1 /\ tally[1] = 1
  /\ router.links[0].tx_packets = 0
  /\ out_port = 1
  /\ router.links[0].state = SW_LINK_ERROR

\* C30: as long as the router is used through sw_router_init,
\* sw_router_add_route, sw_router_open_channel and sw_router_route_frame only,
\* every link is Uninitialized and has sent nothing, and no RouteFrame call
\* returns 1, whatever state sw_link_set_state gives a link object.
OwnOperationsNeverConnect ==
  /\ \A p \in 0..SW_MAX_PORTS - 1 :
       /\ router.links[p].state = SW_LINK_UNINITIALIZED
       /\ router.links[p].tx_packets = 0
  /\ call.op = "route_frame" => (ret = 0 /\ call.kind # "routed")

OwnOperationsNeverConnectWitness ==
  /\ call.op = "route_frame" /\ call.kind = "link_down" /\ call.target_addr = 2
  /\ mapped[2] = {1}
  /\ router.routes[2].output_port = 1
  /\ link.state = SW_LINK_CONNECTED

====
